---- MODULE Spec2Model ----
(***************************************************************************)
(* Model of the USB side of adb_client: the USBTransport (nusb and libusb  *)
(* backends) and the CNXN/AUTH handshake of ADBUSBDevice::connect().       *)
(*                                                                         *)
(* The handshake is a sequence of blocking write_message / read_message    *)
(* calls; pc is the position of connect() between two of them, and what    *)
(* the device answers (or a transfer failure) is the input of each read.   *)
(***************************************************************************)
EXTENDS Integers, Sequences, FiniteSets, TLC

(***************************************************************************)
(* Bounds of the model.                                                    *)
(***************************************************************************)
\* CNXN arg1 values the device may announce are 0..MaxArg1
MaxArg1 == 2
\* AUTH arg0 values the device may send are 0..MaxAuthType (TOKEN = 1)
MaxAuthType == 3
\* transport calls made by the upper layers after connect() has returned
MaxOps == 2
MaxAttempts == 2
MaxRequest == 2
MaxBulkCalls == 3

(***************************************************************************)
(* Protocol constants.                                                     *)
(***************************************************************************)
CNXN == 1314410051
AUTH == 1213486401
OKAY == 1497451343
CLSE == 1163086915
WRTE == 1163154007

AUTH_TOKEN == 1
AUTH_SIGNATURE == 2
AUTH_RSAPUBLICKEY == 3

\* arg0 and arg1 of the host's CNXN
CnxnVersion == 16777216
CnxnMaxData == 1048576

\* "host::adb_client" followed by NUL, as bytes
HostBanner == <<104, 111, 115, 116, 58, 58,
                97, 100, 98, 95, 99, 108, 105, 101, 110, 116, 0>>

(***************************************************************************)
(* Messages: ADBTransportMessageHeader and ADBTransportMessage.            *)
(***************************************************************************)
\* A u32 is written as the two's-complement integer that has the same 32
\* bits (values from 2^31 on are negative): TLC's integers are 32 bits wide.

\* bitwise NOT of a u32
Not32(x) == (-x) - 1

\* wrapping addition of two u32, computed on 16-bit halves
Add32(a, b) ==
    LET half == 65536
        lo == (a % half) + (b % half)
        hi == ((a \div half) + (b \div half) + (lo \div half)) % half
    IN  (IF hi >= half \div 2 THEN hi - half ELSE hi) * half + (lo % half)

\* the sum of the payload bytes, modulo 2^32
\* (the sum is taken by halves: wrapping addition is associative)
RECURSIVE compute_crc32(_)
compute_crc32(payload) ==
    IF payload = <<>> THEN 0
    ELSE IF Len(payload) = 1 THEN payload[1]
    ELSE LET mid == Len(payload) \div 2
         IN  Add32(compute_crc32(SubSeq(payload, 1, mid)),
                   compute_crc32(SubSeq(payload, mid + 1, Len(payload))))

ADBTransportMessage_new(command, arg0, arg1, data) ==
    [ command     |-> command,
      arg0        |-> arg0,
      arg1        |-> arg1,
      data_length |-> Len(data),
      data_crc32  |-> compute_crc32(data),
      magic       |-> Not32(command),
      payload     |-> data ]

NullMessage == ADBTransportMessage_new(0, 0, 0, <<>>)

\* TryFrom<[u8; 24]> for the header: the magic must be the NOT of the command
header_try_from(frame) == frame.magic = Not32(frame.command)

check_message_integrity(message) ==
    compute_crc32(message.payload) = message.data_crc32

\* assert_command: Ok iff the message carries the expected command
assert_command(message, expected) == message.command = expected

(***************************************************************************)
(* The RSA key: what connect() uses of it.                                 *)
(***************************************************************************)
\* sign(token): the signature block over the token
sign(token) == <<83>> \o token

\* android_pubkey_encode(): the base64 blob, a space and the user label
android_pubkey_encode == <<81, 65, 32, 117>>

(***************************************************************************)
(* USB descriptors.  A device is the sequence of its alt-settings in the   *)
(* order the nested loops configurations -> interfaces -> alt-settings     *)
(* visit them; each alt-setting lists its endpoints in order.              *)
(***************************************************************************)
EpIn(addr, type)  == [address |-> addr, direction |-> "In",  transfer_type |-> type]
EpOut(addr, type) == [address |-> addr, direction |-> "Out", transfer_type |-> type]

AltSetting(num, class, subclass, protocol, eps) ==
    [ interface_number |-> num, class |-> class, subclass |-> subclass,
      protocol |-> protocol, endpoints |-> eps ]

\* the usual ADB interface: bulk IN and bulk OUT on interface 0
DescAdb == << AltSetting(0, 255, 66, 1, << EpIn(129, "Bulk"), EpOut(1, "Bulk") >>) >>
\* a mass-storage device: bulk endpoints, but no ADB interface
DescStorage == << AltSetting(0, 8, 6, 80, << EpIn(129, "Bulk"), EpOut(1, "Bulk") >>) >>
\* an interrupt endpoint first, and the OUT endpoint listed before the IN one
DescOutFirst ==
    << AltSetting(0, 255, 66, 1,
          << EpIn(131, "Interrupt"), EpOut(1, "Bulk"), EpIn(129, "Bulk") >>) >>
\* the two bulk endpoints on two ADB interfaces
DescTwoIfaces ==
    << AltSetting(0, 255, 66, 1, << EpIn(129, "Bulk") >>),
       AltSetting(1, 255, 66, 1, << EpOut(2, "Bulk") >>) >>

Descriptors == { DescAdb, DescStorage, DescOutFirst, DescTwoIfaces }

Backends == { "nusb", "libusb" }

(***************************************************************************)
(* USBTransport.                                                           *)
(***************************************************************************)
NoEndpoint == [some |-> FALSE, iface |-> 0, address |-> 0]
SomeEndpoint(desc) == [some |-> TRUE, iface |-> desc.iface, address |-> desc.address]

\* USBTransport::new_from_device_info / new_from_device: created detached.
\* claims: the interface claims this transport object holds on the device,
\* each with the field of the transport that keeps it alive.
new_from_device_info ==
    [ device         |-> FALSE,
      read_endpoint  |-> NoEndpoint,
      write_endpoint |-> NoEndpoint,
      claims         |-> <<>> ]

\* the endpoints of the alt-settings, flattened in visiting order
RECURSIVE EndpointWalk(_)
EndpointWalk(alts) ==
    IF alts = <<>> THEN <<>>
    ELSE LET a == Head(alts) IN
         [ i \in 1..Len(a.endpoints) |->
             [ interface_desc |-> a, endpoint_desc |-> a.endpoints[i] ] ]
         \o EndpointWalk(Tail(alts))

NoDesc == [some |-> FALSE, iface |-> 0, address |-> 0]

RECURSIVE find_endpoints_loop(_, _, _)
find_endpoints_loop(walk, read_endpoint, write_endpoint) ==
    IF walk = <<>> THEN [ok |-> FALSE, read |-> NoDesc, write |-> NoDesc]
    ELSE LET i == Head(walk).interface_desc
             e == Head(walk).endpoint_desc
             endpoint == [some |-> TRUE, iface |-> i.interface_number,
                          address |-> e.address]
         IN  IF e.transfer_type = "Bulk" /\ i.class = 255
                /\ i.subclass = 66 /\ i.protocol = 1
             THEN IF e.direction = "In"
                  THEN IF write_endpoint.some
                       THEN [ok |-> TRUE, read |-> endpoint, write |-> write_endpoint]
                       ELSE find_endpoints_loop(Tail(walk), endpoint, write_endpoint)
                  ELSE IF read_endpoint.some
                       THEN [ok |-> TRUE, read |-> read_endpoint, write |-> endpoint]
                       ELSE find_endpoints_loop(Tail(walk), read_endpoint, endpoint)
             ELSE find_endpoints_loop(Tail(walk), read_endpoint, write_endpoint)

find_endpoints(desc) == find_endpoints_loop(EndpointWalk(desc), NoDesc, NoDesc)

\* the claims of t that are not kept alive by the field `owner`
DropClaims(claims, owner) == SelectSeq(claims, LAMBDA c : c.owner # owner)

\* ADBTransport::connect of USBTransport.  open_ok, claim_in_ok and
\* claim_out_ok are what the USB stack answers to open() and to the two
\* claim_interface calls.
\*   nusb:   each Endpoint owns its claimed Interface, so an endpoint that
\*           was recorded keeps its claim when a later step fails;
\*   libusb: the claims belong to the opened handle, which is dropped (and
\*           its claims with it) unless connect() stores it.
transport_connect(t, backend, desc, open_ok, claim_in_ok, claim_out_ok) ==
    IF ~open_ok THEN [res |-> "UsbError", t |-> t]
    ELSE
    LET found == find_endpoints(desc) IN
    IF ~found.ok THEN [res |-> "USBNoDescriptorFound", t |-> t]
    ELSE IF ~claim_in_ok THEN [res |-> "UsbError", t |-> t]
    ELSE
    LET inOwner  == IF backend = "nusb" THEN "read_endpoint" ELSE "device"
        outOwner == IF backend = "nusb" THEN "write_endpoint" ELSE "device"
        t1 == [t EXCEPT !.read_endpoint = SomeEndpoint(found.read),
                        !.claims = IF backend = "nusb"
                                   THEN Append(DropClaims(t.claims, inOwner),
                                          [iface |-> found.read.iface, owner |-> inOwner])
                                   ELSE t.claims]
    IN
    IF ~claim_out_ok THEN [res |-> "UsbError", t |-> t1]
    ELSE [ res |-> "Ok",
           t |-> [ device         |-> TRUE,
                   read_endpoint  |-> t1.read_endpoint,
                   write_endpoint |-> SomeEndpoint(found.write),
                   claims |->
                     IF backend = "nusb"
                     THEN Append(DropClaims(t1.claims, outOwner),
                            [iface |-> found.write.iface, owner |-> outOwner])
                     ELSE << [iface |-> found.read.iface,  owner |-> "device"],
                             [iface |-> found.write.iface, owner |-> "device"] >> ] ]

\* What the OS answers to claim_interface(iface) on the handle connect() has
\* just opened: a claim is exclusive, so an interface the transport still
\* holds through a handle of an earlier connect() is busy.
claim_busy(t, iface) ==
    \E i \in 1..Len(t.claims) : t.claims[i].iface = iface

(***************************************************************************)
(* write_message and read_message, one call each.  io is what the bulk     *)
(* transfers of the call do: "Ok", or the error of the one that failed.    *)
(***************************************************************************)
IoOutcomes == { "Ok", "Timeout", "UsbError" }

\* get_write_endpoint (and, on libusb, get_raw_connection)
write_ready(t, backend) ==
    t.write_endpoint.some /\ (backend = "libusb" => t.device)

\* get_read_endpoint (and, on libusb, get_raw_connection)
read_ready(t, backend) ==
    t.read_endpoint.some /\ (backend = "libusb" => t.device)

write_message(t, backend, io) ==
    IF ~write_ready(t, backend)
    THEN [res |-> "NotConnected", bulk |-> FALSE]
    ELSE [res |-> io, bulk |-> TRUE]

\* frame: the header fields and the payload bytes the device puts on the IN
\* endpoint
read_message(t, backend, frame, io) ==
    IF ~read_ready(t, backend)
    THEN [res |-> "NotConnected", msg |-> NullMessage, bulk |-> FALSE]
    ELSE IF io # "Ok"
    THEN [res |-> io, msg |-> NullMessage, bulk |-> TRUE]
    ELSE IF ~header_try_from(frame)
    THEN [res |-> "InvalidHeader", msg |-> NullMessage, bulk |-> TRUE]
    ELSE IF frame.data_length # 0
    THEN IF ~check_message_integrity(frame)
         THEN [res |-> "InvalidIntegrity", msg |-> NullMessage, bulk |-> TRUE]
         ELSE [res |-> "Ok", msg |-> frame, bulk |-> TRUE]
    ELSE [res |-> "Ok", msg |-> [frame EXCEPT !.payload = <<>>], bulk |-> TRUE]

\* ADBTransport::disconnect: a CLSE message, written like any other
clse_message == ADBTransportMessage_new(CLSE, 0, 0, <<>>)

transport_disconnect(t, backend, io) ==
    [ res |-> write_message(t, backend, io).res,
      bulk |-> write_message(t, backend, io).bulk,
      t |-> t ]

(***************************************************************************)
(* String::from_utf8 on a payload.                                         *)
(***************************************************************************)
IsCont(b) == 128 <= b /\ b <= 191

RECURSIVE from_utf8_ok(_)
from_utf8_ok(p) ==
    IF p = <<>> THEN TRUE
    ELSE LET b == Head(p)
             n == IF b <= 127 THEN 1
                  ELSE IF 194 <= b /\ b <= 223 THEN 2
                  ELSE IF 224 <= b /\ b <= 239 THEN 3
                  ELSE IF 240 <= b /\ b <= 244 THEN 4
                  ELSE 0
         IN  /\ n # 0
             /\ Len(p) >= n
             /\ \A i \in 2..n : IsCont(p[i])
             /\ (b = 224 => p[2] >= 160)
             /\ (b = 237 => p[2] <= 159)
             /\ (b = 240 => p[2] >= 144)
             /\ (b = 244 => p[2] <= 143)
             /\ from_utf8_ok(SubSeq(p, n + 1, Len(p)))

(***************************************************************************)
(* What the device may put on the IN endpoint.                             *)
(***************************************************************************)
\* "device::" as the device banner, and a banner that is not UTF-8
Banner == <<100, 101, 118, 105, 99, 101, 58, 58>>
BannerNotUtf8 == <<100, 255>>
\* the challenge (20 random bytes on a real device)
Token == <<7, 200, 31>>

CnxnFrames ==
    { ADBTransportMessage_new(CNXN, CnxnVersion, m, b) :
        m \in 0..MaxArg1, b \in {Banner, BannerNotUtf8} }

AuthFrames ==
    { ADBTransportMessage_new(AUTH, a, 0, Token) : a \in 0..MaxAuthType }

OtherFrames ==
    { ADBTransportMessage_new(OKAY, 1, 1, <<>>),
      ADBTransportMessage_new(CLSE, 1, 1, <<>>),
      ADBTransportMessage_new(WRTE, 1, 1, <<1, 2>>) }

\* a CNXN whose magic is wrong, and one whose payload was altered in flight
CorruptFrames ==
    { [ADBTransportMessage_new(CNXN, CnxnVersion, 1, Banner) EXCEPT !.magic = 0],
      [ADBTransportMessage_new(CNXN, CnxnVersion, 1, Banner)
          EXCEPT !.payload = <<100, 101, 118, 105, 99, 101, 58, 59>>] }

DeviceFrames == CnxnFrames \cup AuthFrames \cup OtherFrames \cup CorruptFrames

(***************************************************************************)
(* State.                                                                  *)
(***************************************************************************)
VARIABLES
    backend,       \* the USB backend the crate was built with
    descriptor,    \* the descriptors of the USB device
    log_info,      \* whether the info log level is enabled
    transport,     \* the USBTransport
    transport_result, \* what the transport's connect() returned to connect()
    max_data,      \* the session's maximum data size
    pc,            \* where connect() stands
    result,        \* what connect() returned, "none" while it runs
    trace,         \* the write_message / read_message calls of connect()
    lastOp,        \* the last transport call made after connect() returned
    nops,          \* how many such calls were made
    disconnected,  \* disconnect() was called on the connected transport
    attempt,       \* how many times connect() was called on the transport
    prior,         \* how the previous connect() on the transport ended
    blocked,       \* a claim of the last connect() met a claim still held
    xfer,          \* the write_message / read_message call in progress, by bulk call
    race,          \* the bulk call in progress: its transfer and its timer
    auto,          \* the autodetect constructor in progress: the bus, the key file, its steps
    raw,           \* the raw interface calls on the transport: claim_interface and the raw transfers
    pair           \* the two backends side by side: their transports and what the last call returned

vars == << backend, descriptor, log_info, transport, transport_result, max_data,
           pc, result, trace, lastOp, nops, disconnected, attempt, prior, blocked, xfer,
           race,
           auto,
           raw,
           pair >>

\* what search_adb_devices returned: Ok(None), Ok(Some(id)) or an error; pairs
\* are the vendor:product pairs the error message names
NoSearch == [res |-> "none", some |-> FALSE, id |-> <<0, 0>>, pairs |-> <<>>]

\* no autodetect in progress
AutoIdle ==
    [ pc          |-> "idle",   \* "idle", "start", "new", "key", "connect", "done"
      bus         |-> <<>>,     \* the USB devices, in enumeration order
      key_file    |-> "absent", \* what is at the private key path
      inspected   |-> <<>>,     \* per device: the search could look at it
      search      |-> NoSearch, \* what search_adb_devices returned
      target      |-> 0,        \* the device of the transport, 0 while there is none
      load        |-> "none",   \* what read_adb_private_key returned
      private_key |-> "none",   \* "none", "loaded" or "random"
      result      |-> "none" ]  \* what the constructor returned

\* no raw call made; claimed lists the interfaces claim_interface claimed on
\* the device, in order; granted the interfaces claim_interface returned Ok
\* for, before what granted was ahead of the last call; last is the last raw
\* call with what it returned
RawIdle ==
    [ other_interfaces |-> {},
      claimed          |-> <<>>,
      granted          |-> {},
      before           |-> {},
      last             |-> [op |-> "none", iface |-> 0, res |-> "none"],
      calls            |-> 0 ]

\* what a transport call gave: its result, the message it returned and whether
\* it issued a bulk transfer
NoOutcome == [res |-> "none", msg |-> NullMessage, bulk |-> FALSE]

\* a libusb transport and a nusb transport on the same device, no call made
PairIdle ==
    [ nusb   |-> new_from_device_info,
      libusb |-> new_from_device_info,
      op     |-> "none",      \* the last call made on both
      out    |-> [nusb |-> NoOutcome, libusb |-> NoOutcome],
      calls  |-> 0 ]

\* no bulk call in progress; total and buf are the caller's running count and
\* the bytes it has in its buffer
RaceIdle ==
    [ pc        |-> "idle",    \* "idle", "pending" (block_on parked) or "returned"
      dir       |-> "none",    \* "in" for read_bulk, "out" for write_bulk
      request   |-> 0,         \* buf.len() of the call
      transfer  |-> "pending", \* the transfer: "pending", "complete" or "error"
      n         |-> 0,         \* bytes the completed transfer moved
      timer     |-> FALSE,     \* Timer::after(timeout) has fired
      first     |-> "none",    \* which of the two became ready first
      cancelled |-> FALSE,     \* the transfer future was dropped unfinished
      outcome   |-> "none",    \* what the call returned
      outcomes  |-> 0,         \* how many times the call returned
      total     |-> 0,         \* the caller's total_read / total_written
      buf       |-> <<>>,      \* the bytes copied into the caller's buffer
      before    |-> [total |-> 0, buf |-> <<>>],  \* both when the call began
      calls     |-> 0 ]        \* bulk calls made so far

NoOp == [op |-> "none", res |-> "none", bulk |-> FALSE]

\* no write_message or read_message call in progress; frames is what the
\* device has queued on the IN endpoint (see the bulk-level actions below)
XferIdle(frames) ==
    [ pc         |-> "idle",       \* where the call stands
      op         |-> "none",       \* the call: "write" or "read"
      res        |-> "none",       \* what the call returned, "none" while it runs
      after_timeout |-> FALSE,     \* the read_message before this one timed out
      msg        |-> NullMessage,  \* the message being written / the header decoded
      ret        |-> NullMessage,  \* the message read_message returned
      total      |-> 0,            \* total_written / total_read of the running loop
      data       |-> <<>>,         \* bytes being written / bytes read into the buffer
      wire       |-> <<>>,         \* bytes the OUT endpoint acknowledged to the call
      frames     |-> frames,       \* the messages the device sends, in order
      stream     |-> <<>>,         \* their bytes, as the IN endpoint delivers them
      starts     |-> {},           \* the offsets in stream at which a message starts
      pos        |-> 0,            \* bytes taken from the IN endpoint so far
      begin      |-> 0,            \* pos when the call began
      decoded    |-> FALSE,        \* the call got its 24 header bytes and decoded them
      payload_io |-> FALSE,        \* the call made a bulk transfer for a payload
      checked    |-> FALSE,        \* the call ran check_message_integrity
      early      |-> FALSE,        \* payload was submitted before the header was out
      tick       |-> FALSE ]       \* flips when a bulk call completes with 0 bytes

Init ==
    /\ backend \in Backends
    /\ descriptor \in Descriptors
    /\ log_info \in BOOLEAN
    /\ transport = new_from_device_info
    /\ transport_result = "none"
    /\ max_data = 0
    /\ pc = "start"
    /\ result = "none"
    /\ trace = <<>>
    /\ lastOp = NoOp
    /\ nops = 0
    /\ disconnected = FALSE
    /\ attempt = 1
    /\ prior = [result |-> "none", disconnected |-> FALSE]
    /\ blocked = FALSE
    /\ xfer = XferIdle(<<>>)
    /\ race = RaceIdle
    /\ auto = AutoIdle
    /\ raw = RawIdle
    /\ pair = PairIdle

WriteEvent(message, res) == [kind |-> "write", res |-> res, msg |-> message]
ReadEvent(r) == [kind |-> "read", res |-> r.res, msg |-> r.msg]

(***************************************************************************)
(* ADBUSBDevice::connect, step by step.  Each operator gives where         *)
(* connect() stands after the step: its next position, the value it        *)
(* returned ("none" while it goes on) and max_data.                        *)
(***************************************************************************)
Goes(next, md) == [pc |-> next, result |-> "none", max_data |-> md]
Returns(res, md) == [pc |-> "done", result |-> res, max_data |-> md]

\* self.get_transport_mut().connect()?
connect_transport(res, md) ==
    IF res = "Ok" THEN Goes("write_cnxn", md) ELSE Returns(res, md)

\* Faulty variant of cnxn_message: version and max_data in each other's place.
cnxn_message_args_swapped ==
    ADBTransportMessage_new(CNXN, CnxnMaxData, CnxnVersion, HostBanner)

cnxn_message ==
    ADBTransportMessage_new(CNXN, CnxnVersion, CnxnMaxData, HostBanner)

\* Faulty variant of connect_write_cnxn: the result of write_message is
\* dropped and the handshake goes on to its first read.
connect_write_cnxn_ignores_error(res, md) == Goes("read_first", md)

\* self.get_transport_mut().write_message(message)? for the CNXN
connect_write_cnxn(res, md) ==
    IF res = "Ok" THEN Goes("read_first", md) ELSE Returns(res, md)

\* Faulty variant of connect_read_first: a CNXN answer ends the handshake
\* without recording its arg1.
connect_read_first_forgets_max_data(r, md) ==
    IF r.res # "Ok" THEN Returns(r.res, md)
    ELSE IF r.msg.command = CNXN THEN Returns("Ok", md)
    ELSE IF ~assert_command(r.msg, AUTH) THEN Returns("WrongResponseReceived", md)
    ELSE IF r.msg.arg0 = AUTH_TOKEN THEN Goes("write_signature", md)
    ELSE Returns("ADBRequestFailed", md)

\* Faulty variant of connect_read_first: the AUTH type is not looked at.
connect_read_first_any_auth_type(r, md) ==
    IF r.res # "Ok" THEN Returns(r.res, md)
    ELSE IF r.msg.command = CNXN THEN Returns("Ok", r.msg.arg1)
    ELSE IF ~assert_command(r.msg, AUTH) THEN Returns("WrongResponseReceived", md)
    ELSE Goes("write_signature", md)

\* Faulty variant of connect_read_first: no assert_command(Auth), only arg0
\* is looked at.
connect_read_first_no_assert(r, md) ==
    IF r.res # "Ok" THEN Returns(r.res, md)
    ELSE IF r.msg.command = CNXN THEN Returns("Ok", r.msg.arg1)
    ELSE IF r.msg.arg0 = AUTH_TOKEN THEN Goes("write_signature", md)
    ELSE Returns("ADBRequestFailed", md)

\* the first read_message()? and what follows, up to the signature
connect_read_first(r, md) ==
    IF r.res # "Ok" THEN Returns(r.res, md)
    ELSE IF r.msg.command = CNXN THEN Returns("Ok", r.msg.arg1)
    ELSE IF ~assert_command(r.msg, AUTH) THEN Returns("WrongResponseReceived", md)
    ELSE IF r.msg.arg0 = AUTH_TOKEN THEN Goes("write_signature", md)
    ELSE Returns("ADBRequestFailed", md)

signature_message(token) ==
    ADBTransportMessage_new(AUTH, AUTH_SIGNATURE, 0, sign(token))

\* self.private_key.sign(..)? and write_message(message)? for the signature
connect_write_signature(sign_ok, res, md) ==
    IF ~sign_ok THEN Returns("RSAError", md)
    ELSE IF res = "Ok" THEN Goes("read_second", md)
    ELSE Returns(res, md)

\* the second read_message()? and the answer to the signature
connect_read_second(r, info, md) ==
    IF r.res # "Ok" THEN Returns(r.res, md)
    ELSE IF r.msg.command = CNXN
    THEN IF info /\ ~from_utf8_ok(r.msg.payload)
         THEN Returns("FromUtf8Error", md)
         ELSE Returns("Ok", md)
    ELSE Goes("write_pubkey", md)

pubkey_message ==
    ADBTransportMessage_new(AUTH, AUTH_RSAPUBLICKEY, 0,
                            Append(android_pubkey_encode, 0))

\* android_pubkey_encode()? and write_message(message)? for the public key
connect_write_pubkey(encode_ok, res, md) ==
    IF ~encode_ok THEN Returns("RSAError", md)
    ELSE IF res = "Ok" THEN Goes("read_third", md)
    ELSE Returns(res, md)

\* Faulty variant of connect_read_third: no assert_command(Cnxn), whatever
\* arrives is taken as the device's CNXN.
connect_read_third_no_assert(r, info, md) ==
    IF r.res # "Ok" THEN Returns(r.res, md)
    ELSE IF info /\ ~from_utf8_ok(r.msg.payload)
    THEN Returns("FromUtf8Error", r.msg.arg1)
    ELSE Returns("Ok", r.msg.arg1)

\* read_message_with_timeout(10 s).and_then(..)? and the log line after it
connect_read_third(r, info, md) ==
    IF r.res # "Ok" THEN Returns(r.res, md)
    ELSE IF ~assert_command(r.msg, CNXN) THEN Returns("WrongResponseReceived", md)
    ELSE IF info /\ ~from_utf8_ok(r.msg.payload)
    THEN Returns("FromUtf8Error", r.msg.arg1)
    ELSE Returns("Ok", r.msg.arg1)

(***************************************************************************)
(* Actions.                                                                *)
(***************************************************************************)
Advance(step) ==
    /\ pc' = step.pc
    /\ result' = step.result
    /\ max_data' = step.max_data

\* connect(): the transport's connect()
ConnectTransport ==
    /\ pc = "start"
    /\ \E open_ok \in BOOLEAN, claim_in_ok \in BOOLEAN, claim_out_ok \in BOOLEAN :
         LET found == find_endpoints(descriptor)
             busy_in  == found.ok /\ claim_busy(transport, found.read.iface)
             busy_out == found.ok /\ claim_busy(transport, found.write.iface)
             c == transport_connect(transport, backend, descriptor,
                                    open_ok, claim_in_ok, claim_out_ok)
         IN  /\ claim_in_ok => ~busy_in
             /\ claim_out_ok => ~busy_out
             /\ transport' = c.t
             /\ transport_result' = c.res
             /\ blocked' = (open_ok /\ (busy_in \/ busy_out))
             /\ Advance(connect_transport(c.res, max_data))
    /\ UNCHANGED << backend, descriptor, log_info, trace, lastOp, nops, disconnected,
                    attempt, prior, xfer,
                    race,
                    auto,
                    raw,
                    pair >>

\* connect(): the host's CNXN
WriteCnxn ==
    /\ pc = "write_cnxn"
    /\ \E io \in IoOutcomes :
         LET w == write_message(transport, backend, io)
         IN  /\ trace' = Append(trace, WriteEvent(cnxn_message, w.res))
             /\ Advance(connect_write_cnxn(w.res, max_data))
    /\ UNCHANGED << backend, descriptor, log_info, transport, transport_result,
                    lastOp, nops, disconnected, attempt, prior, blocked, xfer,
                    race,
                    auto,
                    raw,
                    pair >>

\* connect(): the device's answer to the CNXN
ReadFirst ==
    /\ pc = "read_first"
    /\ \E frame \in DeviceFrames, io \in IoOutcomes :
         LET r == read_message(transport, backend, frame, io)
         IN  /\ trace' = Append(trace, ReadEvent(r))
             /\ Advance(connect_read_first(r, max_data))
    /\ UNCHANGED << backend, descriptor, log_info, transport, transport_result,
                    lastOp, nops, disconnected, attempt, prior, blocked, xfer,
                    race,
                    auto,
                    raw,
                    pair >>

\* connect(): the signature of the token just received
WriteSignature ==
    /\ pc = "write_signature"
    /\ \E sign_ok \in BOOLEAN, io \in IoOutcomes :
         LET token == trace[Len(trace)].msg.payload
             w == write_message(transport, backend, io)
         IN  /\ trace' = IF sign_ok
                         THEN Append(trace, WriteEvent(signature_message(token), w.res))
                         ELSE trace
             /\ Advance(connect_write_signature(sign_ok, w.res, max_data))
    /\ UNCHANGED << backend, descriptor, log_info, transport, transport_result,
                    lastOp, nops, disconnected, attempt, prior, blocked, xfer,
                    race,
                    auto,
                    raw,
                    pair >>

\* connect(): the device's answer to the signature
ReadSecond ==
    /\ pc = "read_second"
    /\ \E frame \in DeviceFrames, io \in IoOutcomes :
         LET r == read_message(transport, backend, frame, io)
         IN  /\ trace' = Append(trace, ReadEvent(r))
             /\ Advance(connect_read_second(r, log_info, max_data))
    /\ UNCHANGED << backend, descriptor, log_info, transport, transport_result,
                    lastOp, nops, disconnected, attempt, prior, blocked, xfer,
                    race,
                    auto,
                    raw,
                    pair >>

\* connect(): the public key
WritePubkey ==
    /\ pc = "write_pubkey"
    /\ \E encode_ok \in BOOLEAN, io \in IoOutcomes :
         LET w == write_message(transport, backend, io)
         IN  /\ trace' = IF encode_ok
                         THEN Append(trace, WriteEvent(pubkey_message, w.res))
                         ELSE trace
             /\ Advance(connect_write_pubkey(encode_ok, w.res, max_data))
    /\ UNCHANGED << backend, descriptor, log_info, transport, transport_result,
                    lastOp, nops, disconnected, attempt, prior, blocked, xfer,
                    race,
                    auto,
                    raw,
                    pair >>

\* connect(): the device's answer to the public key, awaited for 10 s
ReadThird ==
    /\ pc = "read_third"
    /\ \E frame \in DeviceFrames, io \in IoOutcomes :
         LET r == read_message(transport, backend, frame, io)
         IN  /\ trace' = Append(trace, ReadEvent(r))
             /\ Advance(connect_read_third(r, log_info, max_data))
    /\ UNCHANGED << backend, descriptor, log_info, transport, transport_result,
                    lastOp, nops, disconnected, attempt, prior, blocked, xfer,
                    race,
                    auto,
                    raw,
                    pair >>

\* the transport is Connected: connect() recorded the handle and both endpoints
Connected(t) == t.device /\ t.read_endpoint.some /\ t.write_endpoint.some

\* disconnect() on the transport, after connect() returned
Disconnect ==
    /\ pc = "done"
    /\ nops < MaxOps
    /\ \E io \in IoOutcomes :
         LET d == transport_disconnect(transport, backend, io)
         IN  /\ transport' = d.t
             /\ lastOp' = [op |-> "disconnect", res |-> d.res, bulk |-> d.bulk]
    /\ disconnected' = (disconnected \/ Connected(transport))
    /\ nops' = nops + 1
    /\ UNCHANGED << backend, descriptor, log_info, transport_result, max_data, pc,
                    result, trace, attempt, prior, blocked, xfer,
                    race,
                    auto,
                    raw,
                    pair >>

\* write_message() by an upper layer, after connect() returned
WriteMessage ==
    /\ pc = "done"
    /\ nops < MaxOps
    /\ \E io \in IoOutcomes :
         LET w == write_message(transport, backend, io)
         IN  lastOp' = [op |-> "write_message", res |-> w.res, bulk |-> w.bulk]
    /\ nops' = nops + 1
    /\ UNCHANGED << backend, descriptor, log_info, transport, transport_result,
                    max_data, pc, result, trace, disconnected,
                    attempt, prior, blocked, xfer,
                    race,
                    auto,
                    raw,
                    pair >>

\* read_message() by an upper layer, after connect() returned
ReadMessage ==
    /\ pc = "done"
    /\ nops < MaxOps
    /\ \E op \in { [ op   |-> "read_message",
                     res  |-> read_message(transport, backend, frame, io).res,
                     bulk |-> read_message(transport, backend, frame, io).bulk ] :
                     frame \in DeviceFrames, io \in IoOutcomes } :
         lastOp' = op
    /\ nops' = nops + 1
    /\ UNCHANGED << backend, descriptor, log_info, transport, transport_result,
                    max_data, pc, result, trace, disconnected,
                    attempt, prior, blocked, xfer,
                    race,
                    auto,
                    raw,
                    pair >>

Next ==
    \/ ConnectTransport
    \/ WriteCnxn
    \/ ReadFirst
    \/ WriteSignature
    \/ ReadSecond
    \/ WritePubkey
    \/ ReadThird
    \/ Disconnect
    \/ WriteMessage
    \/ ReadMessage

Spec == Init /\ [][Next]_vars

(***************************************************************************)
(* The calls of connect(), read off the trace.  connect() alternates       *)
(* writes and reads, so trace[1], trace[3], trace[5] are its writes and    *)
(* trace[2], trace[4], trace[6] the reads that follow them.                *)
(***************************************************************************)
Received(i) == Len(trace) >= i /\ trace[i].kind = "read" /\ trace[i].res = "Ok"

ReceivedCnxn(i) == Received(i) /\ trace[i].msg.command = CNXN

ReceivedAuthToken(i) ==
    Received(i) /\ trace[i].msg.command = AUTH /\ trace[i].msg.arg0 = AUTH_TOKEN

Wrote(i, command, arg0) ==
    /\ Len(trace) >= i
    /\ trace[i].kind = "write"
    /\ trace[i].msg.command = command
    /\ trace[i].msg.arg0 = arg0

WroteAuth(i) ==
    Len(trace) >= i /\ trace[i].kind = "write" /\ trace[i].msg.command = AUTH

Failed == pc = "done" /\ result \notin {"none", "Ok"}

(***************************************************************************)
(* C1: when the device answers the host's CNXN with AUTH TOKEN and the     *)
(* host's AUTH SIGNATURE with CNXN(arg1 = m), connect() returns Ok and     *)
(* max_data = m.                                                           *)
(***************************************************************************)
C1_SignatureAccepted ==
    (ReceivedAuthToken(2) /\ Wrote(3, AUTH, AUTH_SIGNATURE) /\ ReceivedCnxn(4))
        => /\ pc = "done"
           /\ result = "Ok"
           /\ max_data = trace[4].msg.arg1

(***************************************************************************)
(* C2: when the first message received after the host's CNXN is            *)
(* CNXN(arg1 = m), connect() returns Ok with max_data = m and the host     *)
(* sends no AUTH message.                                                  *)
(***************************************************************************)
C2_NoAuth ==
    ReceivedCnxn(2)
        => /\ pc = "done"
           /\ result = "Ok"
           /\ max_data = trace[2].msg.arg1
           /\ \A i \in 1..Len(trace) : ~WroteAuth(i)

C2_NoAuth_Witness ==
    /\ ReceivedCnxn(2)
    /\ trace[2].msg.arg1 = MaxArg1
    /\ result = "Ok"
    /\ max_data = MaxArg1

(***************************************************************************)
(* C3: when the device sends AUTH TOKEN twice (after the host's CNXN and   *)
(* after the host's AUTH SIGNATURE), the host's next message is            *)
(* AUTH(arg0 = 3, arg1 = 0) with the public-key blob followed by one NUL   *)
(* as payload, and when the device answers it with CNXN(arg1 = m),         *)
(* connect() returns Ok with max_data = m.                                 *)
(***************************************************************************)
C3_PubkeyEnrollment ==
    (ReceivedAuthToken(2) /\ ReceivedAuthToken(4) /\ Len(trace) >= 5)
        => /\ Wrote(5, AUTH, AUTH_RSAPUBLICKEY)
           /\ trace[5].msg.arg1 = 0
           /\ trace[5].msg.payload = android_pubkey_encode \o <<0>>
           /\ ReceivedCnxn(6)
                => /\ pc = "done"
                   /\ result = "Ok"
                   /\ max_data = trace[6].msg.arg1

(***************************************************************************)
(* C4: AUTH(RSAPUBLICKEY) is written only if the message received in       *)
(* response to the host's AUTH(SIGNATURE) was AUTH with arg0 = TOKEN.      *)
(***************************************************************************)
C4_PubkeyOnlyAfterSecondToken ==
    \A i \in 1..Len(trace) :
        Wrote(i, AUTH, AUTH_RSAPUBLICKEY)
            => /\ i > 2
               /\ Wrote(i - 2, AUTH, AUTH_SIGNATURE)
               /\ ReceivedAuthToken(i - 1)

(***************************************************************************)
(* C5: if the read that follows the host's AUTH(RSAPUBLICKEY) times out,   *)
(* connect() fails with AuthTimeout, an error of its own and not the       *)
(* Timeout that read_message returns elsewhere.                            *)
(***************************************************************************)
C5_AuthTimeout ==
    ( /\ pc = "done"
      /\ Wrote(5, AUTH, AUTH_RSAPUBLICKEY)
      /\ Len(trace) = 6
      /\ trace[6].res = "Timeout" )
        => result = "AuthTimeout"

(***************************************************************************)
(* C6: if the first message received after the host's CNXN is AUTH with    *)
(* arg0 # 1, or is neither CNXN nor AUTH, connect() returns an error,      *)
(* max_data keeps its value (0) and no further message is written.         *)
(***************************************************************************)
C6_FirstAnswerRejected ==
    ( /\ Received(2)
      /\ \/ trace[2].msg.command \notin {CNXN, AUTH}
         \/ trace[2].msg.command = AUTH /\ trace[2].msg.arg0 # AUTH_TOKEN )
        => /\ Failed
           /\ max_data = 0
           /\ Len(trace) = 2

C6_FirstAnswerRejected_Witness ==
    /\ Received(2)
    /\ trace[2].msg.command = AUTH
    /\ trace[2].msg.arg0 = AUTH_SIGNATURE
    /\ result = "ADBRequestFailed"

(***************************************************************************)
(* C7: after the host has sent AUTH(RSAPUBLICKEY), a received message      *)
(* whose command is not CNXN (a third AUTH TOKEN included) makes connect() *)
(* fail with a protocol error, max_data keeps its value (0) and no further *)
(* message is written.                                                     *)
(***************************************************************************)
C7_ThirdAnswerRejected ==
    ( /\ Wrote(5, AUTH, AUTH_RSAPUBLICKEY)
      /\ Received(6)
      /\ trace[6].msg.command # CNXN )
        => /\ pc = "done"
           /\ result = "WrongResponseReceived"
           /\ max_data = 0
           /\ Len(trace) = 6

C7_ThirdAnswerRejected_Witness ==
    /\ Wrote(5, AUTH, AUTH_RSAPUBLICKEY)
    /\ ReceivedAuthToken(6)
    /\ result = "WrongResponseReceived"

(***************************************************************************)
(* C8: the messages connect() writes form a prefix of CNXN,                *)
(* AUTH(SIGNATURE), AUTH(RSAPUBLICKEY); exactly one message is read        *)
(* between two consecutive writes; AUTH(SIGNATURE) is written only after   *)
(* an AUTH TOKEN was received; there are at most three writes and three    *)
(* reads.                                                                  *)
(***************************************************************************)
C8_HandshakeOrder ==
    /\ Len(trace) <= 6
    /\ \A i \in 1..Len(trace) :
          trace[i].kind = (IF i % 2 = 1 THEN "write" ELSE "read")
    /\ Len(trace) >= 1 => trace[1].msg.command = CNXN
    /\ Len(trace) >= 3 => Wrote(3, AUTH, AUTH_SIGNATURE) /\ ReceivedAuthToken(2)
    /\ Len(trace) >= 5 => Wrote(5, AUTH, AUTH_RSAPUBLICKEY)

C8_HandshakeOrder_Witness ==
    /\ pc = "done"
    /\ Len(trace) = 6
    /\ Wrote(5, AUTH, AUTH_RSAPUBLICKEY)

(***************************************************************************)
(* C9: the first message connect() writes is CNXN with arg0 = 0x01000000,  *)
(* arg1 = 1048576 and payload "host::<non-empty identifier>" followed by   *)
(* one NUL; it is written only after the transport's connect() succeeded,  *)
(* and if that failed nothing is written and nothing is read.              *)
(***************************************************************************)
HostPrefix == <<104, 111, 115, 116, 58, 58>>

IsHostBanner(p) ==
    /\ Len(p) >= Len(HostPrefix) + 2
    /\ SubSeq(p, 1, Len(HostPrefix)) = HostPrefix
    /\ p[Len(p)] = 0
    /\ \A i \in (Len(HostPrefix) + 1)..(Len(p) - 1) : p[i] # 0

C9_FirstWriteIsCnxn ==
    /\ Len(trace) >= 1
          => /\ transport_result = "Ok"
             /\ trace[1].kind = "write"
             /\ trace[1].msg.command = CNXN
             /\ trace[1].msg.arg0 = 16777216
             /\ trace[1].msg.arg1 = 1048576
             /\ trace[1].msg.data_length = Len(trace[1].msg.payload)
             /\ IsHostBanner(trace[1].msg.payload)
    /\ transport_result \notin {"none", "Ok"}
          => /\ trace = <<>>
             /\ pc = "done"
             /\ result = transport_result

C9_FirstWriteIsCnxn_Witness ==
    /\ transport_result = "Ok"
    /\ Len(trace) = 1
    /\ trace[1].kind = "write"
    /\ trace[1].res = "Ok"

(***************************************************************************)
(* C10: after disconnect() on a Connected transport the transport is       *)
(* Disconnected (interface released, endpoints and handle cleared), so     *)
(* that a following write_message or read_message fails as not connected   *)
(* and performs no bulk transfer.                                          *)
(***************************************************************************)
C10_DisconnectDetaches ==
    disconnected
        => /\ ~transport.device
           /\ ~transport.read_endpoint.some
           /\ ~transport.write_endpoint.some
           /\ transport.claims = <<>>
           /\ lastOp.op \in {"write_message", "read_message"}
                => lastOp.res = "NotConnected" /\ ~lastOp.bulk

(***************************************************************************)
(* Dropping the ADBUSBDevice.  new_from_transport_inner drops it at once   *)
(* when connect() failed; otherwise its owner drops it later.  Drop calls  *)
(* disconnect() and ignores what it returns; the fields are dropped after  *)
(* it, the transport with its handle and claimed interfaces among them.    *)
(***************************************************************************)
transport_dropped ==
    [ device         |-> FALSE,
      read_endpoint  |-> NoEndpoint,
      write_endpoint |-> NoEndpoint,
      claims         |-> <<>> ]

\* Faulty variant of drop_device: a failed CLSE write becomes the result.
drop_device_reports_clse_error(t, b, io, res) ==
    LET d == transport_disconnect(t, b, io)
    IN  [ event  |-> WriteEvent(clse_message, d.res),
          bulk   |-> d.bulk,
          t      |-> transport_dropped,
          result |-> IF d.res # "Ok" THEN d.res ELSE res ]

\* impl Drop for ADBUSBDevice; res is what the constructor's connect() returned
drop_device(t, b, io, res) ==
    LET d == transport_disconnect(t, b, io)
    IN  [ event  |-> WriteEvent(clse_message, d.res),
          bulk   |-> d.bulk,
          t      |-> transport_dropped,
          result |-> res ]

Drop ==
    /\ pc = "done"
    /\ \E io \in IoOutcomes :
         LET d == drop_device(transport, backend, io, result)
         IN  /\ trace' = Append(trace, d.event)
             /\ lastOp' = [op |-> "disconnect", res |-> d.event.res, bulk |-> d.bulk]
             /\ transport' = d.t
             /\ result' = d.result
    /\ pc' = "dropped"
    /\ UNCHANGED << backend, descriptor, log_info, transport_result, max_data, nops,
                    disconnected, attempt, prior, blocked, xfer,
                    race,
                    auto,
                    raw,
                    pair >>

\* the constructor: connect(), then the drop of the device
NextCtor ==
    \/ ConnectTransport
    \/ WriteCnxn
    \/ ReadFirst
    \/ WriteSignature
    \/ ReadSecond
    \/ WritePubkey
    \/ ReadThird
    \/ Drop

SpecCtor == Init /\ [][NextCtor]_vars

(***************************************************************************)
(* C11: dropping an ADBUSBDevice (the drop inside the constructor after a  *)
(* failed handshake included) attempts to write exactly one                *)
(* CLSE(arg0 = 0, arg1 = 0, empty payload) and releases the interface; a   *)
(* failure of that write never replaces the constructor's error and never  *)
(* prevents the release.                                                   *)
(***************************************************************************)
ClseWrites ==
    { i \in 1..Len(trace) : trace[i].kind = "write" /\ trace[i].msg.command = CLSE }

C11_DropState ==
    pc = "dropped"
        => /\ ClseWrites = {Len(trace)}
           /\ trace[Len(trace)].msg.arg0 = 0
           /\ trace[Len(trace)].msg.arg1 = 0
           /\ trace[Len(trace)].msg.payload = <<>>
           /\ trace[Len(trace)].msg.data_length = 0
           /\ transport.claims = <<>>
           /\ ~transport.device
           /\ ~transport.read_endpoint.some
           /\ ~transport.write_endpoint.some

C11_DropSendsClse ==
    /\ [] C11_DropState
    /\ [][ (pc = "done" /\ pc' = "dropped") => result' = result ]_vars

C11_DropSendsClse_Witness ==
    /\ pc = "dropped"
    /\ result = "Timeout"
    /\ lastOp.res = "UsbError"
    /\ transport.claims = <<>>
    /\ transport_result = "Ok"

(***************************************************************************)
(* connect() called again on a device whose earlier connect() returned.    *)
(* The transport object is the same one: what the earlier call stored in   *)
(* it (handle, endpoints, claimed interfaces) is still there when          *)
(* USBTransport::connect opens the device anew.                            *)
(***************************************************************************)
Reconnect ==
    /\ pc = "done"
    /\ attempt < MaxAttempts
    /\ attempt' = attempt + 1
    /\ prior' = [result |-> result, disconnected |-> disconnected]
    /\ pc' = "start"
    /\ result' = "none"
    /\ trace' = <<>>
    /\ UNCHANGED << backend, descriptor, log_info, transport, transport_result,
                    max_data, lastOp, nops, disconnected, blocked, xfer,
                    race,
                    auto,
                    raw,
                    pair >>

NextReconnect ==
    \/ ConnectTransport
    \/ WriteCnxn
    \/ ReadFirst
    \/ WriteSignature
    \/ ReadSecond
    \/ WritePubkey
    \/ ReadThird
    \/ Disconnect
    \/ Reconnect

SpecReconnect == Init /\ [][NextReconnect]_vars

(***************************************************************************)
(* C12: after a connect() that failed with a timeout, or after             *)
(* disconnect(), a further connect() on the same transport is not blocked  *)
(* by an interface claim still held from the first attempt, and restarts   *)
(* the handshake from CNXN.                                                *)
(***************************************************************************)
C12_ReconnectNotBlocked ==
    (attempt > 1 /\ pc # "start" /\ (prior.result = "Timeout" \/ prior.disconnected))
        => /\ ~blocked
           /\ trace # <<>> => (trace[1].kind = "write" /\ trace[1].msg = cnxn_message)

(***************************************************************************)
(* write_message and read_message, bulk transfer by bulk transfer.         *)
(*                                                                         *)
(* The header on the wire: six little-endian u32 fields in declared order. *)
(***************************************************************************)
u32_to_le_bytes(x) ==
    << x % 256, (x \div 256) % 256, (x \div 65536) % 256, (x \div 16777216) % 256 >>

u32_from_le_bytes(b) ==
    b[1] + 256 * b[2] + 65536 * b[3]
         + 16777216 * (IF b[4] >= 128 THEN b[4] - 256 ELSE b[4])

\* ADBTransportMessageHeader::as_bytes
header_as_bytes(m) ==
    u32_to_le_bytes(m.command) \o u32_to_le_bytes(m.arg0) \o u32_to_le_bytes(m.arg1)
        \o u32_to_le_bytes(m.data_length) \o u32_to_le_bytes(m.data_crc32)
        \o u32_to_le_bytes(m.magic)

\* the fields of the 24 bytes given to TryFrom<[u8; 24]>
header_from_bytes(d) ==
    [ command     |-> u32_from_le_bytes(SubSeq(d, 1, 4)),
      arg0        |-> u32_from_le_bytes(SubSeq(d, 5, 8)),
      arg1        |-> u32_from_le_bytes(SubSeq(d, 9, 12)),
      data_length |-> u32_from_le_bytes(SubSeq(d, 13, 16)),
      data_crc32  |-> u32_from_le_bytes(SubSeq(d, 17, 20)),
      magic       |-> u32_from_le_bytes(SubSeq(d, 21, 24)),
      payload     |-> <<>> ]

\* what the device puts on the IN endpoint for the messages it sends
RECURSIVE StreamBytes(_)
StreamBytes(frames) ==
    IF frames = <<>> THEN <<>>
    ELSE header_as_bytes(Head(frames)) \o Head(frames).payload
             \o StreamBytes(Tail(frames))

\* the offsets in StreamBytes(frames) at which a message of the device starts
RECURSIVE FrameStarts(_, _)
FrameStarts(frames, at) ==
    IF frames = <<>> THEN {}
    ELSE {at} \cup FrameStarts(Tail(frames),
                               at + Len(header_as_bytes(Head(frames)))
                                  + Len(Head(frames).payload))

\* a payload that carries the 24 bytes of a well-formed header
EmbeddedHeader == header_as_bytes(ADBTransportMessage_new(OKAY, 2, 2, <<>>))

DeviceStreams ==
    { << ADBTransportMessage_new(OKAY, 1, 1, <<>>),
         ADBTransportMessage_new(WRTE, 1, 1, <<1, 2>>) >>,
      << [ADBTransportMessage_new(WRTE, 1, 1, <<1, 2>>) EXCEPT !.magic = 0] >>,
      << [ADBTransportMessage_new(WRTE, 1, 1, <<1, 2>>) EXCEPT !.payload = <<1, 3>>] >>,
      << [ADBTransportMessage_new(OKAY, 1, 1, <<>>) EXCEPT !.data_crc32 = 5] >>,
      << ADBTransportMessage_new(WRTE, 1, 1, EmbeddedHeader) >> }

HostMessages ==
    { clse_message, ADBTransportMessage_new(WRTE, 1, 1, <<1, 2>>) }

\* a call begins: its locals are fresh
xfer_begin(x, op) ==
    [x EXCEPT !.op = op, !.res = "none",
              !.after_timeout = IF x.op = "read" THEN x.res = "Timeout"
                                ELSE x.after_timeout,
              !.msg = NullMessage, !.ret = NullMessage,
              !.total = 0, !.data = <<>>, !.wire = <<>>, !.begin = x.pos,
              !.decoded = FALSE, !.payload_io = FALSE, !.checked = FALSE,
              !.early = FALSE]

\* a call returns
xfer_return(x, res) == [x EXCEPT !.pc = "idle", !.res = res, !.tick = FALSE]

\* Faulty variant of bulk_error: a timeout detaches the transport.
bulk_error_detaches(t, err) ==
    IF err = "Timeout" THEN transport_dropped ELSE t

\* endpoint.write_bulk(..)? / endpoint.read_bulk(..)? returning Err: the error
\* is propagated and nothing of the transport is touched
bulk_error(t, err) == t

\* Faulty variant of write_slice: every call submits the buffer from its start.
write_slice_from_start(bytes, total_written) == bytes

\* &message_bytes[total_written..] and &payload[total_written..]
write_slice(bytes, total_written) == SubSeq(bytes, total_written + 1, Len(bytes))

\* write_message_with_timeout up to its first bulk transfer
write_begin(x, m, ready) ==
    IF ~ready THEN xfer_return([xfer_begin(x, "write") EXCEPT !.msg = m], "NotConnected")
    ELSE [xfer_begin(x, "write") EXCEPT !.pc = "w_header", !.msg = m,
                                         !.data = header_as_bytes(m)]

\* one write_bulk that returned Ok(n), and the code up to the next transfer
write_bulk_ok(x, n) ==
    LET total_written == x.total + n
        x1 == [x EXCEPT !.total = total_written,
                        !.wire = x.wire \o SubSeq(write_slice(x.data, x.total), 1, n),
                        !.payload_io = x.payload_io \/ x.pc = "w_payload",
                        !.early = x.early \/ (x.pc = "w_payload" /\ Len(x.wire) < 24),
                        !.tick = IF n = 0 THEN ~x.tick ELSE x.tick]
    IN  IF total_written # Len(x.data) THEN x1
        ELSE IF x.pc = "w_header" /\ x.msg.payload # <<>>
             THEN [x1 EXCEPT !.pc = "w_payload", !.data = x.msg.payload, !.total = 0]
             ELSE xfer_return(x1, "Ok")

\* Faulty variant of read_request: every call asks for the whole buffer.
read_request_whole(capacity, total_read) == capacity

\* the length of &mut data[total_read..] and &mut msg_data[total_read..]
read_request(capacity, total_read) == capacity - total_read

\* data.len() of the header buffer; msg_data.capacity() of vec![0_u8; data_length]
read_capacity(x) == IF x.pc = "r_header" THEN 24 ELSE x.msg.data_length

\* read_message_with_timeout up to its first bulk transfer
read_begin(x, ready) ==
    IF ~ready THEN xfer_return(xfer_begin(x, "read"), "NotConnected")
    ELSE [xfer_begin(x, "read") EXCEPT !.pc = "r_header"]

\* Faulty variant of read_header_done: an empty message is checked as well.
read_header_done_checks_empty(x) ==
    LET header == header_from_bytes(x.data)
        x1 == [x EXCEPT !.msg = header, !.decoded = TRUE]
    IN  IF ~header_try_from(header) THEN xfer_return(x1, "InvalidHeader")
        ELSE IF header.data_length # 0
             THEN [x1 EXCEPT !.pc = "r_payload", !.total = 0, !.data = <<>>]
             ELSE IF ~check_message_integrity(header)
                  THEN xfer_return([x1 EXCEPT !.checked = TRUE], "InvalidIntegrity")
                  ELSE xfer_return([x1 EXCEPT !.checked = TRUE, !.ret = header], "Ok")

\* Faulty variant of read_header_done: the header is not validated.
read_header_done_any_magic(x) ==
    LET header == header_from_bytes(x.data)
        x1 == [x EXCEPT !.msg = header, !.decoded = TRUE]
    IN  IF header.data_length # 0
        THEN [x1 EXCEPT !.pc = "r_payload", !.total = 0, !.data = <<>>]
        ELSE xfer_return([x1 EXCEPT !.ret = header], "Ok")

\* the 24 bytes are in: try_from(data)?, then the test of data_length
read_header_done(x) ==
    LET header == header_from_bytes(x.data)
        x1 == [x EXCEPT !.msg = header, !.decoded = TRUE]
    IN  IF ~header_try_from(header) THEN xfer_return(x1, "InvalidHeader")
        ELSE IF header.data_length # 0
             THEN [x1 EXCEPT !.pc = "r_payload", !.total = 0, !.data = <<>>]
             ELSE xfer_return([x1 EXCEPT !.ret = header], "Ok")

\* Faulty variant of read_payload_done: the message is returned unchecked.
read_payload_done_unchecked(x) ==
    LET message == [x.msg EXCEPT !.payload = x.data]
    IN  xfer_return([x EXCEPT !.ret = message], "Ok")

\* the payload is in: from_header_and_payload, then check_message_integrity
read_payload_done(x) ==
    LET message == [x.msg EXCEPT !.payload = x.data]
        x1 == [x EXCEPT !.checked = TRUE]
    IN  IF ~check_message_integrity(message)
        THEN xfer_return(x1, "InvalidIntegrity")
        ELSE xfer_return([x1 EXCEPT !.ret = message], "Ok")

\* one read_bulk that returned Ok(n), and the code up to the next transfer
read_bulk_ok(x, n) ==
    LET total_read == x.total + n
        x1 == [x EXCEPT !.total = total_read,
                        !.data = x.data \o SubSeq(x.stream, x.pos + 1, x.pos + n),
                        !.pos = x.pos + n,
                        !.payload_io = x.payload_io \/ x.pc = "r_payload",
                        !.tick = IF n = 0 THEN ~x.tick ELSE x.tick]
    IN  IF total_read # read_capacity(x) THEN x1
        ELSE IF x.pc = "r_header" THEN read_header_done(x1)
        ELSE read_payload_done(x1)

Min(a, b) == IF a <= b THEN a ELSE b

\* a transport that connect() attached to the ADB interface
InitIO ==
    /\ backend \in Backends
    /\ descriptor = DescAdb
    /\ log_info = FALSE
    /\ transport = transport_connect(new_from_device_info, backend, DescAdb,
                                     TRUE, TRUE, TRUE).t
    /\ transport_result = "Ok"
    /\ max_data = 0
    /\ pc = "done"
    /\ result = "none"
    /\ trace = <<>>
    /\ lastOp = NoOp
    /\ nops = 0
    /\ disconnected = FALSE
    /\ attempt = 1
    /\ prior = [result |-> "none", disconnected |-> FALSE]
    /\ blocked = FALSE
    /\ \E frames \in DeviceStreams :
         xfer = [XferIdle(frames) EXCEPT !.stream = StreamBytes(frames),
                                         !.starts = FrameStarts(frames, 0)]
    /\ race = RaceIdle
    /\ auto = AutoIdle
    /\ raw = RawIdle
    /\ pair = PairIdle

WriteStart ==
    /\ xfer.pc = "idle"
    /\ \E m \in HostMessages :
         xfer' = write_begin(xfer, m, write_ready(transport, backend))
    /\ UNCHANGED << backend, descriptor, log_info, transport, transport_result, max_data,
                    pc, result, trace, lastOp, nops, disconnected, attempt, prior,
                    blocked,
                    race,
                    auto,
                    raw,
                    pair >>

\* one write_bulk call: the endpoint acknowledges n bytes of the slice, or
\* the call fails
WriteBulk ==
    /\ xfer.pc \in {"w_header", "w_payload"}
    /\ \E io \in IoOutcomes :
         IF io = "Ok"
         THEN /\ \E n \in 0..Len(write_slice(xfer.data, xfer.total)) :
                   xfer' = write_bulk_ok(xfer, n)
              /\ transport' = transport
         ELSE /\ xfer' = xfer_return(xfer, io)
              /\ transport' = bulk_error(transport, io)
    /\ UNCHANGED << backend, descriptor, log_info, transport_result, max_data,
                    pc, result, trace, lastOp, nops, disconnected, attempt, prior,
                    blocked,
                    race,
                    auto,
                    raw,
                    pair >>

ReadStart ==
    /\ xfer.pc = "idle"
    /\ xfer' = read_begin(xfer, read_ready(transport, backend))
    /\ UNCHANGED << backend, descriptor, log_info, transport, transport_result, max_data,
                    pc, result, trace, lastOp, nops, disconnected, attempt, prior,
                    blocked,
                    race,
                    auto,
                    raw,
                    pair >>

\* one read_bulk call: the endpoint hands over n of the bytes the device has
\* sent, at most as many as were asked for, or the call fails; a transfer
\* cancelled by the timer may have taken bytes that nobody gets
ReadBulk ==
    /\ xfer.pc \in {"r_header", "r_payload"}
    /\ LET most == Min(read_request(read_capacity(xfer), xfer.total),
                       Len(xfer.stream) - xfer.pos)
       IN  \E io \in IoOutcomes :
             IF io = "Ok"
             THEN /\ \E n \in 0..most : xfer' = read_bulk_ok(xfer, n)
                  /\ transport' = transport
             ELSE /\ \E lost \in 0..(IF io = "Timeout" THEN most ELSE 0) :
                       xfer' = xfer_return([xfer EXCEPT !.pos = xfer.pos + lost], io)
                  /\ transport' = bulk_error(transport, io)
    /\ UNCHANGED << backend, descriptor, log_info, transport_result, max_data,
                    pc, result, trace, lastOp, nops, disconnected, attempt, prior,
                    blocked,
                    race,
                    auto,
                    raw,
                    pair >>

NextIO ==
    \/ WriteStart
    \/ WriteBulk
    \/ ReadStart
    \/ ReadBulk

SpecIO == InitIO /\ [][NextIO]_vars

\* every bulk call returns or times out
SpecIOFair == InitIO /\ [][NextIO]_vars /\ WF_vars(WriteBulk) /\ WF_vars(ReadBulk)

\* the transport as connect() left it
AttachedTransport ==
    transport_connect(new_from_device_info, backend, descriptor, TRUE, TRUE, TRUE).t

WroteOk == xfer.op = "write" /\ xfer.pc = "idle" /\ xfer.res = "Ok"
ReadOk  == xfer.op = "read"  /\ xfer.pc = "idle" /\ xfer.res = "Ok"

(***************************************************************************)
(* C13: when write_message returns Ok, the bytes acknowledged on the OUT   *)
(* endpoint are the 24 header bytes followed by the payload bytes, each    *)
(* once and in order, however the endpoint splits the transfers; no        *)
(* payload byte is submitted before all 24 header bytes are acknowledged,  *)
(* and an empty payload causes no bulk-out call.                           *)
(***************************************************************************)
C13_WireLayout ==
    /\ WroteOk => /\ xfer.wire = header_as_bytes(xfer.msg) \o xfer.msg.payload
                  /\ xfer.msg.payload = <<>> => ~xfer.payload_io
    /\ xfer.op = "write" => ~xfer.early
    /\ xfer.pc = "w_payload" =>
          /\ Len(xfer.wire) >= 24
          /\ SubSeq(xfer.wire, 1, 24) = header_as_bytes(xfer.msg)

C13_WireLayout_Witness ==
    /\ WroteOk
    /\ xfer.msg.payload = <<1, 2>>
    /\ xfer.payload_io
    /\ Len(xfer.wire) = 26

(***************************************************************************)
(* C14: a successful read_message consumes exactly 24 + data_length bytes  *)
(* of the IN endpoint; the running byte count of a loop never exceeds the  *)
(* size of the buffer it fills; the returned payload has length            *)
(* data_length and holds the bytes in arrival order.                       *)
(***************************************************************************)
C14_ReadFraming ==
    /\ xfer.pc \in {"r_header", "r_payload"} => xfer.total <= read_capacity(xfer)
    /\ ReadOk =>
          /\ xfer.pos - xfer.begin = 24 + xfer.ret.data_length
          /\ Len(xfer.ret.payload) = xfer.ret.data_length
          /\ header_as_bytes(xfer.ret)
               = SubSeq(xfer.stream, xfer.begin + 1, xfer.begin + 24)
          /\ xfer.ret.payload
               = SubSeq(xfer.stream, xfer.begin + 25, xfer.pos)

C14_ReadFraming_Witness ==
    /\ ReadOk
    /\ xfer.ret.data_length = 2
    /\ xfer.ret.payload = <<1, 2>>
    /\ xfer.begin = 24

(***************************************************************************)
(* C15 as stated: every message read_message returns Ok is integrity-      *)
(* valid: the sum of its payload bytes modulo 2^32 equals data_crc32, so a *)
(* message with data_length = 0 has data_crc32 = 0.                        *)
(***************************************************************************)
C15_EveryOkIsValid ==
    ReadOk => check_message_integrity(xfer.ret)

(***************************************************************************)
(* C15 amended: every message with data_length # 0 that read_message       *)
(* returns Ok was checked and is integrity-valid, and a message whose      *)
(* check fails is reported InvalidIntegrity and not returned; a message    *)
(* with data_length = 0 is returned without a check, whatever its          *)
(* data_crc32.                                                             *)
(***************************************************************************)
C15_NonEmptyOkIsValid ==
    /\ (ReadOk /\ xfer.ret.data_length # 0)
          => (xfer.checked /\ check_message_integrity(xfer.ret))
    /\ (xfer.op = "read" /\ xfer.decoded /\ header_try_from(xfer.msg)
          /\ xfer.total = xfer.msg.data_length /\ xfer.msg.data_length # 0
          /\ ~check_message_integrity([xfer.msg EXCEPT !.payload = xfer.data]))
          => (xfer.res = "InvalidIntegrity" /\ xfer.ret = NullMessage)
    /\ (ReadOk /\ xfer.ret.data_length = 0) => ~xfer.checked

C15_NonEmptyOkIsValid_Witness ==
    /\ xfer.op = "read"
    /\ xfer.res = "InvalidIntegrity"
    /\ xfer.data = <<1, 3>>
    /\ xfer.msg.data_crc32 = 3

(***************************************************************************)
(* C16: a header with data_length = 0 makes read_message return Ok with an *)
(* empty payload and the header as received, without a bulk-in transfer    *)
(* for a payload and without an integrity check.                           *)
(***************************************************************************)
C16_EmptyPayload ==
    (xfer.op = "read" /\ xfer.decoded /\ header_try_from(xfer.msg)
        /\ xfer.msg.data_length = 0)
        => /\ ReadOk
           /\ ~xfer.payload_io
           /\ ~xfer.checked
           /\ xfer.ret.payload = <<>>
           /\ xfer.pos = xfer.begin + 24
           /\ header_as_bytes(xfer.ret)
                = SubSeq(xfer.stream, xfer.begin + 1, xfer.begin + 24)

C16_EmptyPayload_Witness ==
    /\ ReadOk
    /\ xfer.ret.command = OKAY
    /\ xfer.ret.data_length = 0
    /\ xfer.ret.data_crc32 = 5

(***************************************************************************)
(* C17: when the 24 bytes do not decode (magic is not the bitwise NOT of   *)
(* command), read_message returns InvalidHeader without a bulk-in transfer *)
(* for a payload, whatever data_length says.                               *)
(***************************************************************************)
C17_InvalidHeader ==
    (xfer.op = "read" /\ xfer.decoded /\ ~header_try_from(xfer.msg))
        => /\ xfer.pc = "idle"
           /\ xfer.res = "InvalidHeader"
           /\ ~xfer.payload_io
           /\ xfer.pos = xfer.begin + 24
           /\ xfer.ret = NullMessage

C17_InvalidHeader_Witness ==
    /\ xfer.op = "read"
    /\ xfer.res = "InvalidHeader"
    /\ xfer.msg.command = WRTE
    /\ xfer.msg.data_length = 2
    /\ xfer.begin = 0

(***************************************************************************)
(* C18: no stale bytes after a timeout: the successful read_message that   *)
(* follows a timed-out one decodes the first 24 bytes of a message of the  *)
(* device, never the tail of the interrupted one.                          *)
(***************************************************************************)
C18_NoStaleBytes ==
    (ReadOk /\ xfer.after_timeout) => xfer.begin \in xfer.starts

(***************************************************************************)
(* C19: a read_message or write_message that fails with Timeout leaves the *)
(* connection state of the transport (handle, endpoints, claims) as it     *)
(* was, and a later call issues bulk transfers again.                      *)
(***************************************************************************)
C19_TimeoutKeepsConnection ==
    /\ xfer.res = "Timeout" =>
          /\ transport = AttachedTransport
          /\ write_ready(transport, backend)
          /\ read_ready(transport, backend)
    /\ (xfer.op = "read" /\ xfer.after_timeout) => xfer.res # "NotConnected"

C19_TimeoutKeepsConnection_Witness ==
    /\ xfer.after_timeout
    /\ xfer.pc = "r_header"
    /\ xfer.total > 0
    /\ transport.claims # <<>>

(***************************************************************************)
(* C20: every read_message and write_message call eventually returns, for  *)
(* every behaviour of the endpoint in which each bulk call returns or      *)
(* times out, bulk calls that keep completing with 0 bytes included.       *)
(***************************************************************************)
C20_EveryCallReturns ==
    (xfer.pc # "idle") ~> (xfer.pc = "idle")

(***************************************************************************)
(* One bulk call: block_on(fut.or(timer)).  fut submits the transfer and   *)
(* awaits its completion, timer is Timer::after(timeout).  `or` polls fut  *)
(* first and the timer second and returns the first one it finds ready;    *)
(* the other future is dropped, which cancels a transfer still in flight.  *)
(***************************************************************************)
\* write_bulk / read_bulk is entered with a buffer of `request` bytes
race_submit(r, dir, request) ==
    LET fresh == r.outcome \notin {"none", "Ok"}   \* the earlier message call ended
        total == IF fresh THEN 0 ELSE r.total
        buf   == IF fresh THEN <<>> ELSE r.buf
    IN  [r EXCEPT !.pc = "pending", !.dir = dir, !.request = request,
                  !.transfer = "pending", !.n = 0, !.timer = FALSE, !.first = "none",
                  !.cancelled = FALSE, !.outcome = "none", !.outcomes = 0,
                  !.total = total, !.buf = buf,
                  !.before = [total |-> total, buf |-> buf],
                  !.calls = r.calls + 1]

\* the completion of the transfer: comp.status?, then Ok(n) (read_bulk copies
\* comp.data into buf[..n] first); the caller adds n to its running count
race_transfer_ready(r) ==
    IF r.transfer = "error"
    THEN [r EXCEPT !.pc = "returned", !.outcome = "UsbError", !.outcomes = r.outcomes + 1]
    ELSE [r EXCEPT !.pc = "returned", !.outcome = "Ok", !.outcomes = r.outcomes + 1,
                   !.total = r.total + r.n,
                   !.buf = IF r.dir = "in"
                           THEN r.buf \o [i \in 1..r.n |-> r.calls]
                           ELSE r.buf]

\* the timer's branch: Err(TimedOut); fut is dropped with its transfer
race_timer_ready(r) ==
    [r EXCEPT !.pc = "returned", !.outcome = "Timeout", !.outcomes = r.outcomes + 1,
              !.cancelled = r.transfer = "pending"]

\* Faulty variant of race_poll: the timer is looked at before the transfer.
race_poll_timer_first(r) ==
    IF r.timer THEN race_timer_ready(r)
    ELSE IF r.transfer # "pending" THEN race_transfer_ready(r)
    ELSE r

\* one poll of fut.or(timer) by block_on
race_poll(r) ==
    IF r.transfer # "pending" THEN race_transfer_ready(r)
    ELSE IF r.timer THEN race_timer_ready(r)
    ELSE r

BulkSubmit ==
    /\ race.pc \in {"idle", "returned"}
    /\ race.calls < MaxBulkCalls
    /\ \E dir \in {"in", "out"}, request \in 1..MaxRequest :
         race' = race_submit(race, dir, request)
    /\ UNCHANGED << backend, descriptor, log_info, transport, transport_result, max_data,
                    pc, result, trace, lastOp, nops, disconnected, attempt, prior,
                    blocked, xfer,
                    auto,
                    raw,
                    pair >>

\* the USB stack completes the transfer, with n bytes or with an error status
TransferCompletes ==
    /\ race.pc = "pending"
    /\ race.transfer = "pending"
    /\ \E status \in {"complete", "error"}, n \in 0..race.request :
         /\ status = "error" => n = 0
         /\ race' = [race EXCEPT !.transfer = status, !.n = n,
                                 !.first = IF race.first = "none" THEN "transfer"
                                           ELSE race.first]
    /\ UNCHANGED << backend, descriptor, log_info, transport, transport_result, max_data,
                    pc, result, trace, lastOp, nops, disconnected, attempt, prior,
                    blocked, xfer,
                    auto,
                    raw,
                    pair >>

TimerFires ==
    /\ race.pc = "pending"
    /\ ~race.timer
    /\ race' = [race EXCEPT !.timer = TRUE,
                            !.first = IF race.first = "none" THEN "timer"
                                      ELSE race.first]
    /\ UNCHANGED << backend, descriptor, log_info, transport, transport_result, max_data,
                    pc, result, trace, lastOp, nops, disconnected, attempt, prior,
                    blocked, xfer,
                    auto,
                    raw,
                    pair >>

\* block_on is woken by either future and polls
Poll ==
    /\ race.pc = "pending"
    /\ race.transfer # "pending" \/ race.timer
    /\ race' = race_poll(race)
    /\ UNCHANGED << backend, descriptor, log_info, transport, transport_result, max_data,
                    pc, result, trace, lastOp, nops, disconnected, attempt, prior,
                    blocked, xfer,
                    auto,
                    raw,
                    pair >>

NextRace ==
    \/ BulkSubmit
    \/ TransferCompletes
    \/ TimerFires
    \/ Poll

SpecRace == InitIO /\ [][NextRace]_vars

(***************************************************************************)
(* C21: every bulk call returns exactly one outcome.  If the timer wins,   *)
(* the transfer is cancelled, a timed-out error is returned and no bytes   *)
(* of the cancelled transfer are added to the caller's running count or    *)
(* buffer; if the transfer completes before the timer fires, its byte      *)
(* count (or its status error) is returned and no timeout is reported.     *)
(***************************************************************************)
C21_RaceOutcome ==
    /\ race.outcomes <= 1
    /\ race.pc = "returned" =>
          (race.outcomes = 1 /\ race.outcome \in {"Ok", "UsbError", "Timeout"})
    /\ race.outcome = "Timeout" =>
          /\ race.timer
          /\ race.cancelled
          /\ race.total = race.before.total
          /\ race.buf = race.before.buf
    /\ (race.pc = "returned" /\ race.first = "transfer") =>
          /\ race.outcome # "Timeout"
          /\ ~race.cancelled
          /\ race.transfer = "error" => race.outcome = "UsbError"
          /\ race.transfer = "complete" =>
                /\ race.outcome = "Ok"
                /\ race.total = race.before.total + race.n
                /\ race.dir = "in" => Len(race.buf) = Len(race.before.buf) + race.n

C21_RaceOutcome_Witness ==
    /\ race.pc = "returned"
    /\ race.outcome = "Timeout"
    /\ race.cancelled
    /\ race.dir = "in"
    /\ race.before.total > 0
    /\ race.total = race.before.total

(***************************************************************************)
(* Endpoint discovery, read off the transport after its connect().         *)
(***************************************************************************)
\* the alt-setting is one of the ADB interface
QualifyingAlt(a) == a.class = 255 /\ a.subclass = 66 /\ a.protocol = 1

\* the alt-setting has a bulk endpoint of that direction with that address
HasBulk(a, direction, address) ==
    \E k \in 1..Len(a.endpoints) :
        /\ a.endpoints[k].transfer_type = "Bulk"
        /\ a.endpoints[k].direction = direction
        /\ a.endpoints[k].address = address

\* some qualifying alt-setting has both a bulk IN and a bulk OUT endpoint
PairInOneAlt(desc) ==
    \E i \in 1..Len(desc) :
        /\ QualifyingAlt(desc[i])
        /\ \E k \in 1..Len(desc[i].endpoints) :
              HasBulk(desc[i], "In", desc[i].endpoints[k].address)
        /\ \E k \in 1..Len(desc[i].endpoints) :
              HasBulk(desc[i], "Out", desc[i].endpoints[k].address)

(***************************************************************************)
(* C22: whenever find_endpoints returns a pair, the read endpoint is a     *)
(* bulk IN endpoint and the write endpoint a bulk OUT endpoint of one and  *)
(* the same alt-setting of an interface with class 0xff, subclass 0x42,    *)
(* protocol 0x01; an IN endpoint of one alt-setting or interface is never  *)
(* paired with an OUT endpoint of another.                                 *)
(***************************************************************************)
C22_PairFromOneAltSetting ==
    (transport.read_endpoint.some /\ transport.write_endpoint.some)
        => \E i \in 1..Len(descriptor) :
              /\ QualifyingAlt(descriptor[i])
              /\ transport.read_endpoint.iface = descriptor[i].interface_number
              /\ transport.write_endpoint.iface = descriptor[i].interface_number
              /\ HasBulk(descriptor[i], "In", transport.read_endpoint.address)
              /\ HasBulk(descriptor[i], "Out", transport.write_endpoint.address)

(***************************************************************************)
(* C23: if no qualifying alt-setting of the device contains both a bulk IN *)
(* and a bulk OUT endpoint, the transport's connect() fails (with          *)
(* NoDescriptor once the device is open), claims no interface and records  *)
(* no endpoint.                                                            *)
(***************************************************************************)
C23_NoPairNoConnection ==
    (pc # "start" /\ ~PairInOneAlt(descriptor))
        => /\ transport_result \in {"USBNoDescriptorFound", "UsbError"}
           /\ transport.claims = <<>>
           /\ ~transport.read_endpoint.some
           /\ ~transport.write_endpoint.some


\* C24: one connect() claims each interface at most once: the claims the
\* transport holds after connect() name every interface number a single
\* time, also when the IN and the OUT endpoint are on the same interface.
C24_NoDoubleClaim ==
    pc # "start"
        => \A i, j \in 1..Len(transport.claims) :
              i # j => transport.claims[i].iface # transport.claims[j].iface


\* C30: a transport connect() that returns an error leaves the device
\* handle, the read endpoint and the write endpoint as they were before the
\* call: the transport that was detached is still detached and holds no
\* interface claim.
C30_ConnectFailureIsAtomic ==
    (pc # "start" /\ transport_result # "Ok")
        => /\ ~transport.device
           /\ ~transport.read_endpoint.some
           /\ ~transport.write_endpoint.some
           /\ transport.claims = <<>>


\* C28: a write_message or read_message of connect() that fails ends
\* connect(): connect() returns that very error, the failed call is the last
\* handshake message on the wire, and max_data is left as it was.
C28_HandshakeIoErrorPropagates ==
    \A i \in 1..Len(trace) :
        trace[i].res # "Ok"
            => /\ i = Len(trace)
               /\ pc \in {"done", "dropped"}
               /\ result = trace[i].res
               /\ max_data = 0

\* the signature was written and the read of its answer failed
C28_HandshakeIoErrorPropagates_Witness ==
    /\ Len(trace) = 4
    /\ trace[3].kind = "write" /\ trace[3].res = "Ok"
    /\ trace[4].kind = "read"
    /\ trace[4].res \in {"InvalidIntegrity", "InvalidHeader", "Timeout", "UsbError"}
    /\ result = trace[4].res


(***************************************************************************)
(* Autodetect: search_adb_devices, USBTransport::new, the private key and  *)
(* the constructor's connect().                                            *)
(***************************************************************************)
MaxDevices == 2

UsbDevice(vid, pid, desc) == [vendor_id |-> vid, product_id |-> pid, desc |-> desc]

\* the file-transfer mode interface of some Android devices
DescBulkMode == << AltSetting(0, 220, 2, 1, << EpIn(129, "Bulk"), EpOut(1, "Bulk") >>) >>
\* every value of the two triples is there, but never three on one descriptor
DescSplit ==
    << AltSetting(0, 255, 2, 1, << EpIn(129, "Bulk"), EpOut(1, "Bulk") >>),
       AltSetting(1, 220, 66, 1, << >>),
       AltSetting(2, 255, 66, 0, << >>) >>
\* a composite device: mass storage first, the ADB interface after it
DescComposite ==
    << AltSetting(0, 8, 6, 80, << EpIn(130, "Bulk"), EpOut(3, "Bulk") >>),
       AltSetting(1, 255, 66, 1, << EpIn(129, "Bulk"), EpOut(1, "Bulk") >>) >>

UsbDevices ==
    { UsbDevice(1, 1, DescAdb),
      UsbDevice(1, 1, DescStorage),
      UsbDevice(2, 2, DescBulkMode),
      UsbDevice(2, 1, DescSplit),
      UsbDevice(3, 3, DescComposite) }

Buses == UNION { [1..n -> UsbDevices] : n \in 0..MaxDevices }

KeyFiles == { "absent", "unreadable", "invalid", "valid" }

\* Faulty variant of is_adb_device: class, subclass and protocol are looked
\* for on the device as a whole, each on any descriptor.
is_adb_device_mixed(desc) ==
    /\ \E i \in 1..Len(desc) : desc[i].protocol = 1
    /\ \/ /\ \E i \in 1..Len(desc) : desc[i].class = 255
          /\ \E i \in 1..Len(desc) : desc[i].subclass = 66
       \/ /\ \E i \in 1..Len(desc) : desc[i].class = 220
          /\ \E i \in 1..Len(desc) : desc[i].subclass = 2

\* is_adb_device: the first descriptor with an ADB triple ends the loops
RECURSIVE is_adb_device(_)
is_adb_device(desc) ==
    IF desc = <<>> THEN FALSE
    ELSE LET interface_desc == Head(desc)
             proto == interface_desc.protocol
             class == interface_desc.class
             subcl == interface_desc.subclass
         IN  IF proto = 1 /\ ((class = 255 /\ subcl = 66) \/ (class = 220 /\ subcl = 2))
             THEN TRUE
             ELSE is_adb_device(Tail(desc))

\* the loop of search_adb_devices: a device the search cannot look at (nusb:
\* open() fails; libusb: device_descriptor() fails) is passed over
RECURSIVE found_devices(_, _, _)
found_devices(bus, inspected, i) ==
    IF i > Len(bus) THEN <<>>
    ELSE LET rest == found_devices(bus, inspected, i + 1)
         IN  IF inspected[i] /\ is_adb_device(bus[i].desc)
             THEN << << bus[i].vendor_id, bus[i].product_id >> >> \o rest
             ELSE rest

\* Faulty variant of search_match: two found devices with the same
\* vendor:product pair are taken for one device.
search_match_same_id_is_one(found) ==
    IF Len(found) = 0 THEN [NoSearch EXCEPT !.res = "Ok"]
    ELSE IF Len(found) = 1 \/ found[1] = found[2]
    THEN [NoSearch EXCEPT !.res = "Ok", !.some = TRUE, !.id = found[1]]
    ELSE [NoSearch EXCEPT !.res = "DeviceNotFound", !.pairs = << found[1], found[2] >>]

\* match (found_devices.first(), found_devices.get(1))
search_match(found) ==
    IF Len(found) = 0 THEN [NoSearch EXCEPT !.res = "Ok"]
    ELSE IF Len(found) = 1
    THEN [NoSearch EXCEPT !.res = "Ok", !.some = TRUE, !.id = found[1]]
    ELSE [NoSearch EXCEPT !.res = "DeviceNotFound", !.pairs = << found[1], found[2] >>]

\* search_adb_devices; list_ok is what list_devices()? / devices()? answers
search_adb_devices(bus, inspected, list_ok) ==
    IF ~list_ok THEN [NoSearch EXCEPT !.res = "UsbError"]
    ELSE search_match(found_devices(bus, inspected, 1))

\* USBTransport::new: the first enumerated device with the ids; seen[i] is
\* whether the ids of device i can be read (always, on nusb)
RECURSIVE transport_new(_, _, _, _)
transport_new(bus, seen, id, i) ==
    IF i > Len(bus) THEN 0
    ELSE IF seen[i] /\ bus[i].vendor_id = id[1] /\ bus[i].product_id = id[2] THEN i
    ELSE transport_new(bus, seen, id, i + 1)

\* read_adb_private_key
read_adb_private_key(key_file) ==
    CASE key_file = "absent"     -> "None"
      [] key_file = "unreadable" -> "IOError"
      [] key_file = "invalid"    -> "None"
      [] key_file = "valid"      -> "Some"

AutoReturns(res) == [auto EXCEPT !.pc = "done", !.result = res]


\* autodetect_with_custom_private_key, up to its call of the constructor
autodetect_with_custom_private_key(a, inspected, list_ok) ==
    LET s == search_adb_devices(a.bus, inspected, list_ok)
        b == [a EXCEPT !.inspected = inspected, !.search = s]
    IN  IF s.res # "Ok" THEN [b EXCEPT !.pc = "done", !.result = s.res]
        ELSE IF ~s.some THEN [b EXCEPT !.pc = "done", !.result = "DeviceNotFound"]
        ELSE [b EXCEPT !.pc = "new"]

\* new_from_transport_inner, up to its call of connect(); random_ok is what
\* ADBRsaKey::new_random() answers
load_private_key(a, random_ok) ==
    LET load == read_adb_private_key(a.key_file)
        b == [a EXCEPT !.load = load]
    IN  IF load = "IOError" THEN [b EXCEPT !.pc = "done", !.result = "IOError"]
        ELSE IF load = "Some" THEN [b EXCEPT !.pc = "connect", !.private_key = "loaded"]
        ELSE IF random_ok THEN [b EXCEPT !.pc = "connect", !.private_key = "random"]
        ELSE [b EXCEPT !.pc = "done", !.result = "RSAError"]

InitAuto ==
    /\ backend \in Backends
    /\ descriptor = <<>>
    /\ log_info = FALSE
    /\ transport = new_from_device_info
    /\ transport_result = "none"
    /\ max_data = 0
    /\ pc = "idle"
    /\ result = "none"
    /\ trace = <<>>
    /\ lastOp = NoOp
    /\ nops = 0
    /\ disconnected = FALSE
    /\ attempt = 1
    /\ prior = [result |-> "none", disconnected |-> FALSE]
    /\ blocked = FALSE
    /\ xfer = XferIdle(<<>>)
    /\ race = RaceIdle
    /\ raw = RawIdle
    /\ pair = PairIdle
    /\ \E bus \in Buses, key_file \in KeyFiles :
         auto = [AutoIdle EXCEPT !.pc = "start", !.bus = bus, !.key_file = key_file,
                                 !.inspected = [i \in 1..Len(bus) |-> FALSE]]

\* autodetect: the search and what autodetect makes of its answer
SearchAdbDevices ==
    /\ auto.pc = "start"
    /\ \E list_ok \in BOOLEAN, inspected \in [1..Len(auto.bus) -> BOOLEAN] :
         auto' = autodetect_with_custom_private_key(auto, inspected, list_ok)
    /\ UNCHANGED << backend, descriptor, log_info, transport, transport_result, max_data,
                    pc, result, trace, lastOp, nops, disconnected, attempt, prior,
                    blocked, xfer, race, raw,
                    pair >>

\* new_with_custom_private_key: USBTransport::new(vendor_id, product_id)?
NewTransport ==
    /\ auto.pc = "new"
    /\ \E list_ok \in BOOLEAN, seen \in [1..Len(auto.bus) -> BOOLEAN] :
         LET i == transport_new(auto.bus, seen, auto.search.id, 1)
         IN  /\ backend = "nusb" => \A k \in 1..Len(auto.bus) : seen[k]
             /\ IF ~list_ok
                THEN auto' = AutoReturns("UsbError") /\ UNCHANGED descriptor
                ELSE IF i = 0
                THEN auto' = AutoReturns("DeviceNotFound") /\ UNCHANGED descriptor
                ELSE /\ auto' = [auto EXCEPT !.pc = "key", !.target = i]
                     /\ descriptor' = auto.bus[i].desc
    /\ transport' = new_from_device_info
    /\ UNCHANGED << backend, log_info, transport_result, max_data,
                    pc, result, trace, lastOp, nops, disconnected, attempt, prior,
                    blocked, xfer, race, raw,
                    pair >>

\* new_from_transport_inner: the private key, then connect() starts
LoadPrivateKey ==
    /\ auto.pc = "key"
    /\ \E random_ok \in BOOLEAN :
         /\ auto' = load_private_key(auto, random_ok)
         /\ pc' = IF auto'.pc = "connect" THEN "start" ELSE pc
    /\ UNCHANGED << backend, descriptor, log_info, transport, transport_result, max_data,
                    result, trace, lastOp, nops, disconnected, attempt, prior,
                    blocked, xfer, race, raw,
                    pair >>

\* new_from_transport_inner: s.connect()? returned; on an error the device
\* is dropped and the error is the constructor's
ConstructorReturns ==
    /\ auto.pc = "connect"
    /\ pc = "done"
    /\ auto' = AutoReturns(result)
    /\ IF result = "Ok"
       THEN UNCHANGED << transport, trace, lastOp, pc,
                    pair >>
       ELSE \E io \in IoOutcomes :
              LET d == drop_device(transport, backend, io, result)
              IN  /\ trace' = Append(trace, d.event)
                  /\ lastOp' = [op |-> "disconnect", res |-> d.event.res, bulk |-> d.bulk]
                  /\ transport' = d.t
                  /\ pc' = "dropped"
    /\ UNCHANGED << backend, descriptor, log_info, transport_result, max_data,
                    result, nops, disconnected, attempt, prior,
                    blocked, xfer, race, raw,
                    pair >>

NextAuto ==
    \/ SearchAdbDevices
    \/ NewTransport
    \/ LoadPrivateKey
    \/ ConnectTransport
    \/ WriteCnxn
    \/ ReadFirst
    \/ WriteSignature
    \/ ReadSecond
    \/ WritePubkey
    \/ ReadThird
    \/ ConstructorReturns

SpecAuto == InitAuto /\ [][NextAuto]_vars


\* the descriptor carries one of the two ADB triples
AdbTriple(a) ==
    << a.class, a.subclass, a.protocol >> \in { << 255, 66, 1 >>, << 220, 2, 1 >> }

\* the device exposes an ADB triple on one of its interface descriptors
Qualifies(d) == \E k \in 1..Len(d.desc) : AdbTriple(d.desc[k])

\* the devices the search looked at and that qualify
QualifyingDevices ==
    { i \in 1..Len(auto.bus) : auto.inspected[i] /\ Qualifies(auto.bus[i]) }

DeviceId(i) == << auto.bus[i].vendor_id, auto.bus[i].product_id >>

SearchRan == auto.search.res \in {"Ok", "DeviceNotFound"}

C26_DeviceQualification ==
    auto.search.res # "none"
        => \A i \in 1..Len(auto.bus) :
              is_adb_device(auto.bus[i].desc) <=> Qualifies(auto.bus[i])

\* the search passed over a device that has every value of a triple on
\* different descriptors and found the file-transfer mode device after it
C26_DeviceQualification_Witness ==
    /\ Len(auto.bus) = 2
    /\ auto.bus[1].desc = DescSplit
    /\ auto.bus[2].desc = DescBulkMode
    /\ auto.inspected[1] /\ auto.inspected[2]
    /\ auto.search.res = "Ok" /\ auto.search.some
    /\ auto.search.id = DeviceId(2)

\* C27: whatever keeps the private key from being loaded from the path (no
\* file, another I/O error, content that is no PKCS#8 PEM key), the
\* constructor goes on with a freshly generated key and does not return the
\* failure.
C27_KeyLoadFallsBack ==
    (auto.load # "none" /\ auto.key_file # "valid" /\ auto.result # "RSAError")
        => auto.private_key = "random"


(***************************************************************************)
(* The raw interface calls of the nusb transport: claim_interface,         *)
(* usb_bulk_read, usb_bulk_write and send_usb_class_control_msg.           *)
(***************************************************************************)
MaxRawCalls == 3

\* the interface numbers the raw calls are made with
Ifaces == { 0, 1, 2 }

\* the read endpoint, the write endpoint or other_interfaces has the interface
interface_held(t, r, iface) ==
    \/ t.read_endpoint.some /\ t.read_endpoint.iface = iface
    \/ t.write_endpoint.some /\ t.write_endpoint.iface = iface
    \/ iface \in r.other_interfaces

RawCall(r, op, iface, res) ==
    [r EXCEPT !.last = [op |-> op, iface |-> iface, res |-> res],
              !.before = r.granted,
              !.granted = IF op = "claim_interface" /\ res = "Ok"
                          THEN r.granted \cup {iface} ELSE r.granted,
              !.calls = r.calls + 1]

\* Faulty variant of claim_interface: no look at what is already held.
claim_interface_unchecked(t, r, iface, claim_ok) ==
    IF ~t.device THEN RawCall(r, "claim_interface", iface, "NotConnected")
    ELSE IF ~claim_ok THEN RawCall(r, "claim_interface", iface, "UsbError")
    ELSE RawCall([r EXCEPT !.other_interfaces = r.other_interfaces \cup {iface},
                           !.claimed = Append(r.claimed, iface)],
                 "claim_interface", iface, "Ok")

\* USBTransport::claim_interface; claim_ok is what device.claim_interface
\* answers
claim_interface(t, r, iface, claim_ok) ==
    IF interface_held(t, r, iface) THEN RawCall(r, "claim_interface", iface, "Ok")
    ELSE IF ~t.device THEN RawCall(r, "claim_interface", iface, "NotConnected")
    ELSE IF ~claim_ok THEN RawCall(r, "claim_interface", iface, "UsbError")
    ELSE RawCall([r EXCEPT !.other_interfaces = r.other_interfaces \cup {iface},
                           !.claimed = Append(r.claimed, iface)],
                 "claim_interface", iface, "Ok")

\* USBTransport::get_interface
get_interface(t, r, iface) ==
    IF interface_held(t, r, iface) THEN "Ok" ELSE "InterfaceNotClaimed"

\* usb_bulk_read, usb_bulk_write and send_usb_class_control_msg: the
\* interface, then the transfer on it; io is what the transfer does
raw_transfer(t, r, op, iface, io) ==
    IF get_interface(t, r, iface) # "Ok"
    THEN RawCall(r, op, iface, "InterfaceNotClaimed")
    ELSE RawCall(r, op, iface, io)

InitClaim == Init /\ backend = "nusb"

RawCallAllowed ==
    /\ backend = "nusb"
    /\ pc # "start"
    /\ raw.calls < MaxRawCalls

ClaimInterface ==
    /\ RawCallAllowed
    /\ \E iface \in Ifaces, claim_ok \in BOOLEAN :
         raw' = claim_interface(transport, raw, iface, claim_ok)
    /\ UNCHANGED << backend, descriptor, log_info, transport, transport_result, max_data,
                    pc, result, trace, lastOp, nops, disconnected, attempt, prior,
                    blocked, xfer, race, auto,
                    pair >>

UsbBulkRead ==
    /\ RawCallAllowed
    /\ \E iface \in Ifaces, io \in IoOutcomes :
         raw' = raw_transfer(transport, raw, "usb_bulk_read", iface, io)
    /\ UNCHANGED << backend, descriptor, log_info, transport, transport_result, max_data,
                    pc, result, trace, lastOp, nops, disconnected, attempt, prior,
                    blocked, xfer, race, auto,
                    pair >>

UsbBulkWrite ==
    /\ RawCallAllowed
    /\ \E iface \in Ifaces, io \in IoOutcomes :
         raw' = raw_transfer(transport, raw, "usb_bulk_write", iface, io)
    /\ UNCHANGED << backend, descriptor, log_info, transport, transport_result, max_data,
                    pc, result, trace, lastOp, nops, disconnected, attempt, prior,
                    blocked, xfer, race, auto,
                    pair >>

SendUsbClassControlMsg ==
    /\ RawCallAllowed
    /\ \E iface \in Ifaces, io \in IoOutcomes :
         raw' = raw_transfer(transport, raw, "send_usb_class_control_msg", iface, io)
    /\ UNCHANGED << backend, descriptor, log_info, transport, transport_result, max_data,
                    pc, result, trace, lastOp, nops, disconnected, attempt, prior,
                    blocked, xfer, race, auto,
                    pair >>

NextClaim ==
    \/ ConnectTransport
    \/ ClaimInterface
    \/ UsbBulkRead
    \/ UsbBulkWrite
    \/ SendUsbClassControlMsg

SpecClaim == InitClaim /\ [][NextClaim]_vars

RawTransfers == { "usb_bulk_read", "usb_bulk_write", "send_usb_class_control_msg" }

\* what the raw calls leave behind on a connected transport
C29_ClaimState ==
    Connected(transport) =>
        /\ \A j, k \in 1..Len(raw.claimed) : j # k => raw.claimed[j] # raw.claimed[k]
        /\ \A k \in 1..Len(raw.claimed) :
              /\ raw.claimed[k] # transport.read_endpoint.iface
              /\ raw.claimed[k] # transport.write_endpoint.iface
        /\ (raw.last.op \in RawTransfers /\ raw.last.iface \in raw.granted)
              => raw.last.res # "InterfaceNotClaimed"

\* the claim_interface call in a step, for an interface held before the step
ClaimOfHeld ==
    /\ raw'.calls = raw.calls + 1
    /\ raw'.last.op = "claim_interface"
    /\ interface_held(transport, raw, raw'.last.iface)

\* C29: on a connected transport the claim_interface calls claim every
\* interface at most once and none that an endpoint holds; a call for an
\* interface already held returns Ok and leaves other_interfaces and the
\* claims alone; once claim_interface(i) returned Ok, no raw transfer on i
\* fails with 'interface not yet claimed'.
C29_ClaimInterfaceIdempotent ==
    /\ []C29_ClaimState
    /\ [][ (Connected(transport) /\ ClaimOfHeld)
              => /\ raw'.last.res = "Ok"
                 /\ raw'.other_interfaces = raw.other_interfaces
                 /\ raw'.claimed = raw.claimed ]_vars

\* claim_interface(1) returned Ok a second time, with interface 1 claimed once
C29_ClaimInterfaceIdempotent_Witness ==
    /\ Connected(transport)
    /\ raw.last = [op |-> "claim_interface", iface |-> 1, res |-> "Ok"]
    /\ 1 \in raw.before
    /\ raw.claimed = << 1 >>
    /\ raw.other_interfaces = { 1 }


\* C31: the transport is created detached, and as long as no connect() on it
\* has succeeded, every read_message, write_message and disconnect fails
\* with the not-connected error and issues no bulk transfer.
C31_DetachedIsNotConnected ==
    /\ pc = "start" => transport = new_from_device_info
    /\ (transport_result # "Ok" /\ lastOp.op # "none")
          => lastOp.res = "NotConnected" /\ ~lastOp.bulk


\* the devices on the bus that expose an ADB triple
AdbDevicesOnBus == { i \in 1..Len(auto.bus) : Qualifies(auto.bus[i]) }

\* C32: when exactly one device on the bus qualifies as ADB, the device of
\* the transport autodetect creates and connects is that device, whatever
\* the enumeration order and whatever else carries the same ids.
C32_AutodetectOpensQualified ==
    (auto.target # 0 /\ Cardinality(AdbDevicesOnBus) = 1)
        => auto.target \in AdbDevicesOnBus


(***************************************************************************)
(* The two backends side by side: the same calls on a nusb transport and   *)
(* on a libusb transport of the same device, with the same answers of the  *)
(* USB stack.                                                              *)
(***************************************************************************)
MaxPairCalls == 3

PairCall(p, op, t_nusb, t_libusb, out_nusb, out_libusb) ==
    [ nusb   |-> t_nusb,
      libusb |-> t_libusb,
      op     |-> op,
      out    |-> [nusb |-> out_nusb, libusb |-> out_libusb],
      calls  |-> p.calls + 1 ]

Outcome(res, msg, bulk) == [res |-> res, msg |-> msg, bulk |-> bulk]

\* connect() on both transports
pair_connect(p, desc, open_ok, claim_in_ok, claim_out_ok) ==
    LET n == transport_connect(p.nusb, "nusb", desc, open_ok, claim_in_ok, claim_out_ok)
        l == transport_connect(p.libusb, "libusb", desc, open_ok, claim_in_ok, claim_out_ok)
    IN  PairCall(p, "connect", n.t, l.t,
                 Outcome(n.res, NullMessage, FALSE), Outcome(l.res, NullMessage, FALSE))

\* write_message(message) on both transports
pair_write_message(p, io) ==
    LET n == write_message(p.nusb, "nusb", io)
        l == write_message(p.libusb, "libusb", io)
    IN  PairCall(p, "write_message", p.nusb, p.libusb,
                 Outcome(n.res, NullMessage, n.bulk), Outcome(l.res, NullMessage, l.bulk))

\* read_message() on both transports
pair_read_message(p, frame, io) ==
    LET n == read_message(p.nusb, "nusb", frame, io)
        l == read_message(p.libusb, "libusb", frame, io)
    IN  PairCall(p, "read_message", p.nusb, p.libusb,
                 Outcome(n.res, n.msg, n.bulk), Outcome(l.res, l.msg, l.bulk))

\* disconnect() on both transports
pair_disconnect(p, io) ==
    LET n == transport_disconnect(p.nusb, "nusb", io)
        l == transport_disconnect(p.libusb, "libusb", io)
    IN  PairCall(p, "disconnect", n.t, l.t,
                 Outcome(n.res, NullMessage, n.bulk), Outcome(l.res, NullMessage, l.bulk))

PairConnect ==
    /\ pair.calls < MaxPairCalls
    /\ \E open_ok \in BOOLEAN, claim_in_ok \in BOOLEAN, claim_out_ok \in BOOLEAN :
         LET found == find_endpoints(descriptor)
             busy_in  == found.ok /\ (\/ claim_busy(pair.nusb, found.read.iface)
                                      \/ claim_busy(pair.libusb, found.read.iface))
             busy_out == found.ok /\ (\/ claim_busy(pair.nusb, found.write.iface)
                                      \/ claim_busy(pair.libusb, found.write.iface))
         IN  /\ claim_in_ok => ~busy_in
             /\ claim_out_ok => ~busy_out
             /\ pair' = pair_connect(pair, descriptor, open_ok, claim_in_ok, claim_out_ok)
    /\ UNCHANGED << backend, descriptor, log_info, transport, transport_result, max_data,
                    pc, result, trace, lastOp, nops, disconnected, attempt, prior,
                    blocked, xfer, race, auto, raw >>

PairWriteMessage ==
    /\ pair.calls < MaxPairCalls
    /\ \E io \in IoOutcomes : pair' = pair_write_message(pair, io)
    /\ UNCHANGED << backend, descriptor, log_info, transport, transport_result, max_data,
                    pc, result, trace, lastOp, nops, disconnected, attempt, prior,
                    blocked, xfer, race, auto, raw >>

PairReadMessage ==
    /\ pair.calls < MaxPairCalls
    /\ \E frame \in DeviceFrames, io \in IoOutcomes :
         pair' = pair_read_message(pair, frame, io)
    /\ UNCHANGED << backend, descriptor, log_info, transport, transport_result, max_data,
                    pc, result, trace, lastOp, nops, disconnected, attempt, prior,
                    blocked, xfer, race, auto, raw >>

PairDisconnect ==
    /\ pair.calls < MaxPairCalls
    /\ \E io \in IoOutcomes : pair' = pair_disconnect(pair, io)
    /\ UNCHANGED << backend, descriptor, log_info, transport, transport_result, max_data,
                    pc, result, trace, lastOp, nops, disconnected, attempt, prior,
                    blocked, xfer, race, auto, raw >>

NextPair ==
    \/ PairConnect
    \/ PairWriteMessage
    \/ PairReadMessage
    \/ PairDisconnect

SpecPair == Init /\ [][NextPair]_vars

\* C33: the same call with the same answers of the USB stack gives the same
\* result on the libusb backend and on the nusb backend: the same value or
\* error, the same message, and a bulk transfer on both or on neither.
C33_BackendEquivalence ==
    pair.out.nusb = pair.out.libusb

====
